---- MODULE Spec2Model ----
(***************************************************************************)
(* Model of the categorization engine (categorization_engine.py) and of   *)
(* the DuckDB search provider (duckdb_search_provider.py) of              *)
(* humble-bundle-inventory.                                                *)
(*                                                                         *)
(* Text is modelled by TLA+ strings.  Scores are kept in exact hundredths  *)
(* (rule weights and field weights in tenths), so 0.8 is 80 and the clamp  *)
(* at 1.0 is a clamp at 100.                                               *)
(***************************************************************************)
EXTENDS Integers, Sequences, FiniteSets, TLC

VARIABLES
    rules,          \* CategorizationEngine.rules: the engine's rule list
    compiled,       \* the _compiled_* attributes PatternMatcher puts on each rule
    matchers,       \* CategorizationEngine.matchers
    item,           \* the item handed to categorize
    result,         \* the CategoryResult of the last categorize call
    rule_scores,    \* the rule_score values of the last PatternMatcher.match loop
    pc,             \* the statement an add_rule call in progress has reached
    store,          \* the product ids of the rows of the products table
    searchable_fields, \* DuckDBSearchProvider.searchable_fields
    field_list,     \* the list the last get_searchable_fields call returned
    request,        \* the arguments of the last search call
    response,       \* what the last search call returned or raised
    store_queries,  \* conn.execute calls made by the last search call
    calls,          \* search calls made so far
    stats,          \* what the last get_search_stats call returned
    fault           \* which conn.execute of the last get_search_stats call raised (0: none)

cat_vars == <<rules, compiled, matchers, item, result, rule_scores, pc>>
search_vars == <<store, searchable_fields, field_list, request, response, store_queries, calls, stats, fault>>
vars == <<rules, compiled, matchers, item, result, rule_scores, pc,
          store, searchable_fields, field_list, request, response, store_queries, calls, stats, fault>>

-----------------------------------------------------------------------------
(* Python values *)

\* SQL NULL / Python None in a nullable column: a value v is <<v>>, NULL is <<>>.
Null == <<>>
Some(v) == <<v>>
IsNull(x) == x = <<>>
Val(x) == x[1]

-----------------------------------------------------------------------------
(* categorization_engine.py: the rule model *)

\* CategoryType, in declaration order.
CategoryType == <<"ebook", "game", "software", "audio", "video", "comic",
                  "bundle", "subscription_content", "unknown">>
Categories == {CategoryType[i] : i \in 1..Len(CategoryType)}

\* CategoryRule.  weight and field_weights are in tenths.  required_patterns
\* and exclusion_patterns default to None, which every use in the code tests
\* by truthiness only; None and the empty list are both <<>>.
CategoryRule(name, category, subcategory, patterns, weight, field_weights, required_patterns, exclusion_patterns) ==
    [name |-> name, category |-> category, subcategory |-> subcategory,
     patterns |-> patterns, weight |-> weight, field_weights |-> field_weights,
     required_patterns |-> required_patterns,
     exclusion_patterns |-> exclusion_patterns]

\* dict literals of field weights
FW3 == [name |-> 8, human_name |-> 8, description |-> 3]
FW3s == [name |-> 9, human_name |-> 9, description |-> 4]
FW4 == [name |-> 8, human_name |-> 8, description |-> 3, machine_name |-> 5]
FWsub == [name |-> 10, human_name |-> 10, machine_name |-> 8]

\* CategorizationEngine._load_default_rules
DefaultRules == <<
    CategoryRule("ebook_keywords", "ebook", "general",
        <<"\\bbook\\b", "\\bguide\\b", "\\bmanual\\b", "\\btutorial\\b", "\\bhandbook\\b">>,
        10, FW4, <<>>, <<>>),
    CategoryRule("ebook_programming", "ebook", "programming",
        <<"\\bprogramming\\b", "\\bcoding\\b", "\\bdevelopment\\b", "\\bpython\\b",
          "\\bjava\\b", "\\bjavascript\\b">>,
        12, FW3s, <<>>, <<>>),
    CategoryRule("ebook_security", "ebook", "security",
        <<"\\bsecurity\\b", "\\bhacking\\b", "\\bpentesting\\b", "\\bcyber\\b", "\\bmalware\\b">>,
        12, FW3s, <<>>, <<>>),
    CategoryRule("game_keywords", "game", "general",
        <<"\\bgame\\b", "\\badventure\\b", "\\bquest\\b", "\\blegend\\b">>,
        10, FW3, <<>>, <<>>),
    CategoryRule("game_strategy", "game", "strategy",
        <<"\\bstrategy\\b", "\\brts\\b", "\\bturn.based\\b", "\\bcivilization\\b", "\\bwar\\b">>,
        11, FW3s, <<>>, <<>>),
    CategoryRule("software_keywords", "software", "general",
        <<"\\bsoftware\\b", "\\btool\\b", "\\butility\\b", "\\bapp\\b", "\\bsuite\\b", "\\bstudio\\b">>,
        10, FW3, <<>>, <<>>),
    CategoryRule("audio_keywords", "audio", "general",
        <<"\\bsoundtrack\\b", "\\bmusic\\b", "\\baudio\\b", "\\bmp3\\b", "\\balbum\\b">>,
        10, FW3, <<>>, <<>>),
    CategoryRule("subscription_coupons", "subscription_content", "coupon",
        <<"\\bcoupon\\b", "\\bdiscount\\b", "\\%\\s*off\\b">>,
        20, FWsub, <<>>, <<>>),
    CategoryRule("subscription_choice", "subscription_content", "humble_choice",
        <<"\\bchoice\\b", "\\bsubscription\\b">>,
        18, FWsub, <<>>, <<>>) >>

-----------------------------------------------------------------------------
(* Bounds and inputs of the categorization specification *)

MaxAddedRules == 1
MaxMatchers == 2

\* An item carries at most this many fields.
MaxItemFields == 2

ItemFields == {"name", "human_name", "description", "machine_name", "tags"}

NameTexts == {"Strategy RPG Quest"}
HumanNameTexts == {"", "Python Programming Guide", "Game Guide", "Security Coding Book",
                   "Coupon Choice", "Art Studio"}
DescriptionTexts == {"a python guide", "Python demo"}
MachineNameTexts == {"python_guide"}
TagsTexts == {"python guide"}

Items ==
    {[f \in S |-> full[f]] :
        S \in {T \in SUBSET ItemFields : Cardinality(T) <= MaxItemFields},
        full \in [name : NameTexts, human_name : HumanNameTexts,
                  description : DescriptionTexts, machine_name : MachineNameTexts,
                  tags : TagsTexts]}

\* Rules a caller adds with add_rule.
RulePool == {
    CategoryRule("python_video", "video", "tutorial", <<"\\bguide\\b">>, 10,
                 [human_name |-> 8, tags |-> 5], <<"python">>, <<"demo">>),
    CategoryRule("misc_unknown", "unknown", "general", <<"guide", "game">>, 4,
                 [human_name |-> 10, description |-> 10], <<>>, <<"python">>),
    CategoryRule("unterminated_set", "video", "general", <<"[a">>, 10,
                 [human_name |-> 10], <<>>, <<>>) }

\* Matchers a caller adds with add_matcher.
\* owned marks the PatternMatcher the engine itself constructs; rules is the
\* rule list a caller built its own PatternMatcher over; scores is the score
\* map a matcher of another class returns.
MatcherPool == {
    [type |-> "VideoMatcher", owned |-> FALSE, rules |-> <<>>,
     scores |-> [cat \in Categories |->
                   IF cat = "video" THEN 80 ELSE IF cat = "unknown" THEN 50 ELSE 0]],
    [type |-> "PatternMatcher", owned |-> FALSE,
     rules |-> <<CategoryRule("caller_guide", "comic", "general", <<"guide">>, 5,
                              [human_name |-> 10], <<>>, <<>>)>>,
     scores |-> [cat \in Categories |-> 0]] }

-----------------------------------------------------------------------------
(* The store the search provider queries, and the inputs of the searches *)

\* The asset_sources table: source_id -> source_name.
AssetSources == [humble_bundle |-> "Humble Bundle", steam |-> "Steam"]

\* A row of the products table.  Nullable columns hold <<v>> or NULL (<<>>);
\* rating is in tenths.
Product(product_id, source_id, human_name, description, category, subcategory, developer, publisher, tags, rating) ==
    [product_id |-> product_id, source_id |-> source_id, human_name |-> human_name,
     description |-> description, category |-> category, subcategory |-> subcategory,
     developer |-> developer, publisher |-> publisher, tags |-> tags, rating |-> rating]

\* The products a store can hold, by product_id.
ProductPool == <<
    Product(1, "humble_bundle", "Python Guide", Some("Learn the game of code"), Some("ebook"),
            Some("programming"), Some("Ada"), Some("Nostarch"), Some("python"), Some(45)),
    Product(2, "humble_bundle", "Game Engine", Null, Some("software"),
            Some("development"), Some("Unity"), Some("Unity"), Some("game dev"), Some(0)),
    Product(3, "steam", "portal", Some("Puzzle"), Some("game"),
            Some("puzzle"), Some("Valve"), Some("Valve"), Null, Null),
    Product(4, "humble_bundle", "Zen Garden", Some("calm"), Some("game"),
            Null, Some("Zen"), Null, Some("relax"), Some(48)) >>

\* The bundles table: bundle_id -> bundle_name.
Bundles == <<"Coder Bundle", "Game Bundle">>

\* The bundle_products table: <<bundle_id, product_id>>.
BundleProducts == {<<1, 1>>, <<2, 1>>, <<1, 2>>, <<2, 4>>}

\* The downloads table, by download_id.
Downloads == << [product_id |-> 1, platform |-> Some("pdf")],
                [product_id |-> 2, platform |-> Some("windows")],
                [product_id |-> 2, platform |-> Some("linux")],
                [product_id |-> 4, platform |-> Some("windows")] >>

\* A store holds at most this many products.
MaxProducts == 3
\* At most this many search calls are made.
MaxCalls == 1

\* A caller appends at most this many names to a field list it was handed.
MaxListGrowth == 1

\* The changes a caller makes to a field list it was handed.
ListChangePool ==
    {[op |-> "append", value |-> "bogus_field"], [op |-> "remove", value |-> "tags"]}

Stores == {S \in SUBSET (1..Len(ProductPool)) : Cardinality(S) <= MaxProducts}

\* Queries handed to search_assets and search_by_field.
QueryPool == {"", "game", "GAME", "^P", "[a"}

\* Filter mappings handed to the searches; None and {} are both the empty mapping.
NoFilters == <<>>
FilterPool == {NoFilters,
               [category |-> "game"],
               [source |-> "Humble Bundle", platform |-> "windows"],
               [rating_min |-> 40, rating_max |-> 46],
               [rating_max |-> 0],
               [rating_min |-> 0]}

\* Field names handed to search_by_field.
FieldPool == {"human_name", "description", "category", "tags", "bundle_name", "bogus_field"}

\* Query strings handed to the advanced-search command.
CommandQueryPool == {"category:game,category:ebook", "category:game, human_name:Python", "game"}

\* Values of the --rating-max option of the command; <<>> when not given.
RatingOptionPool == {<<>>, <<"0">>}

\* Queries handed to search_by_field.
FieldQueryPool == {"game", "^P", "[a"}

\* queries mappings handed to search_advanced, as the sequence of their
\* (field, query) items in insertion order.
AdvancedPool == { <<>>,
                  << <<"category", "game">> >>,
                  << <<"human_name", "game">>, <<"category", "game">> >>,
                  << <<"bogus_field", "x">>, <<"category", "game">> >>,
                  << <<"human_name", "[a">>, <<"category", "game">> >>,
                  << <<"description", "game">>, <<"bundle_name", "game">> >> }

OperatorPool == {"AND", "OR", "XOR"}

\* Filters handed to search_by_field and search_advanced.
NarrowFilterPool == {NoFilters, [category |-> "game"]}

\* The text of a nullable column, "" for NULL.
TextOf(x) == IF IsNull(x) THEN "" ELSE Val(x)

StoreTexts ==
    UNION {{ProductPool[i].human_name, TextOf(ProductPool[i].description),
            TextOf(ProductPool[i].category), TextOf(ProductPool[i].subcategory),
            TextOf(ProductPool[i].developer), TextOf(ProductPool[i].publisher),
            TextOf(ProductPool[i].tags)} : i \in 1..Len(ProductPool)}
        \cup {Bundles[i] : i \in 1..Len(Bundles)}

SearchQueries ==
    QueryPool \cup UNION {{qs[k][2] : k \in 1..Len(qs)} : qs \in AdvancedPool}

-----------------------------------------------------------------------------
(* The texts and patterns that occur in the model.  Lower and ReSearch are *)
(* evaluated once per text and pattern of these sets and looked up after.  *)

RECURSIVE SeqRange(_)
SeqRange(s) == IF Len(s) = 0 THEN {} ELSE {Head(s)} \cup SeqRange(Tail(s))

RulePatterns(rule) ==
    SeqRange(rule.patterns) \cup SeqRange(rule.required_patterns)
        \cup SeqRange(rule.exclusion_patterns)

ItemTexts == NameTexts \cup HumanNameTexts \cup DescriptionTexts
                \cup MachineNameTexts \cup TagsTexts

KnownTexts == ItemTexts \cup StoreTexts \cup SearchQueries

PatternUniverse ==
    UNION {RulePatterns(DefaultRules[i]) : i \in 1..Len(DefaultRules)}
        \cup UNION {RulePatterns(rule) : rule \in RulePool}
        \cup SearchQueries

-----------------------------------------------------------------------------
(* Characters and strings *)

Lowers == "abcdefghijklmnopqrstuvwxyz"
Uppers == "ABCDEFGHIJKLMNOPQRSTUVWXYZ"
Digits == "0123456789"

Ch(s, i) == SubSeq(s, i, i)
CharsOf(s) == {Ch(s, i) : i \in 1..Len(s)}

LowerTab == [c \in CharsOf(Uppers) |->
               Ch(Lowers, CHOOSE i \in 1..Len(Uppers) : Ch(Uppers, i) = c)]
UpperTab == [c \in CharsOf(Lowers) |->
               Ch(Uppers, CHOOSE i \in 1..Len(Lowers) : Ch(Lowers, i) = c)]
LowerSet == CharsOf(Lowers)
UpperSet == CharsOf(Uppers)
DigitSet == CharsOf(Digits)

LowerChar(c) == IF c \in UpperSet THEN LowerTab[c] ELSE c
UpperChar(c) == IF c \in LowerSet THEN UpperTab[c] ELSE c

RECURSIVE LowerRec(_)
LowerRec(s) == IF Len(s) = 0 THEN ""
               ELSE LowerChar(Ch(s, 1)) \o LowerRec(SubSeq(s, 2, Len(s)))

LowerTable == [t \in KnownTexts |-> LowerRec(t)]

\* str.lower()
RECURSIVE Lower(_)
Lower(s) == IF s \in KnownTexts THEN LowerTable[s] ELSE LowerRec(s)

\* The texts patterns are searched in.
TextUniverse == ItemTexts \cup {LowerRec(t) : t \in ItemTexts} \cup StoreTexts

RECURSIVE Upper(_)
\* str.upper()
Upper(s) == IF Len(s) = 0 THEN ""
            ELSE UpperChar(Ch(s, 1)) \o Upper(SubSeq(s, 2, Len(s)))

\* `k in s` on Python strings.
Contains(s, k) == \E i \in 1..(Len(s) - Len(k) + 1) : SubSeq(s, i, i + Len(k) - 1) = k

\* The code points of the characters that occur in the model, in ASCII order.
AsciiOrder == " !%-0123456789ABCDEFGHIJKLMNOPQRSTUVWXYZ[]_abcdefghijklmnopqrstuvwxyz"
Ord(c) == IF \E i \in 1..Len(AsciiOrder) : Ch(AsciiOrder, i) = c
          THEN CHOOSE i \in 1..Len(AsciiOrder) : Ch(AsciiOrder, i) = c
          ELSE 0

IsWordChar(c) == c \in LowerSet \/ c \in UpperSet \/ c \in DigitSet \/ c = "_"
IsSpaceChar(c) == c = " "

-----------------------------------------------------------------------------
(* Regular expressions: the part of Python's re the rules and the searches  *)
(* use.  A pattern is a sequence of literals, `.', `^', `$', the escapes    *)
(* \b \s \w \d, an escaped punctuation character and a one-range class      *)
(* [x-y], each single-character atom optionally followed by * or +.         *)

Tok(t, c, d, q) == [t |-> t, c |-> c, d |-> d, q |-> q]

\* Length in characters of the atom that starts at p[i]; 0 when the text
\* there is not a legal atom.
AtomLen(p, i) ==
    LET c == Ch(p, i) IN
    IF c = "\\" THEN (IF i + 1 <= Len(p) THEN 2 ELSE 0)
    ELSE IF c = "[" THEN
        (IF i + 4 <= Len(p) /\ Ch(p, i + 2) = "-" /\ Ch(p, i + 4) = "]"
            /\ Ord(Ch(p, i + 1)) <= Ord(Ch(p, i + 3)) THEN 5 ELSE 0)
    ELSE IF c \in {"*", "+"} THEN 0
    ELSE 1

AtomTok(p, i, q) ==
    LET c == Ch(p, i) IN
    IF c = "\\" THEN
        LET n == Ch(p, i + 1) IN
        IF n = "b" THEN Tok("wb", "", "", "1")
        ELSE IF n = "s" THEN Tok("space", "", "", q)
        ELSE IF n = "w" THEN Tok("word", "", "", q)
        ELSE IF n = "d" THEN Tok("digit", "", "", q)
        ELSE Tok("lit", n, "", q)
    ELSE IF c = "[" THEN Tok("range", Ch(p, i + 1), Ch(p, i + 3), q)
    ELSE IF c = "." THEN Tok("any", "", "", q)
    ELSE IF c = "^" THEN Tok("bol", "", "", "1")
    ELSE IF c = "$" THEN Tok("eol", "", "", "1")
    ELSE Tok("lit", c, "", q)

RECURSIVE Parse(_, _)
Parse(p, i) ==
    IF i > Len(p) THEN <<>>
    ELSE LET n == AtomLen(p, i) IN
         IF n = 0 THEN <<Tok("err", "", "", "1")>>
         ELSE LET j == i + n
                  quantified == j <= Len(p) /\ Ch(p, j) \in {"*", "+"}
                  q == IF quantified THEN Ch(p, j) ELSE "1"
              IN <<AtomTok(p, i, q)>> \o Parse(p, IF quantified THEN j + 1 ELSE j)

ReCompileRec(p) ==
    LET toks == Parse(p, 1) IN
    [pattern |-> p, toks |-> toks, ok |-> \A k \in 1..Len(toks) : toks[k].t # "err"]

CompileTable == [p \in PatternUniverse |-> ReCompileRec(p)]

\* re.compile(pattern): the compiled pattern (its source and its tokens);
\* ok is FALSE when re.compile raises re.error.
RECURSIVE ReCompile(_)
ReCompile(p) == IF p \in PatternUniverse THEN CompileTable[p] ELSE ReCompileRec(p)

\* Does the single-character atom tk accept character c?
AtomAccepts(tk, c, ignorecase) ==
    CASE tk.t = "lit"   -> IF ignorecase THEN LowerChar(c) = LowerChar(tk.c) ELSE c = tk.c
      [] tk.t = "any"   -> TRUE
      [] tk.t = "space" -> IsSpaceChar(c)
      [] tk.t = "word"  -> IsWordChar(c)
      [] tk.t = "digit" -> c \in DigitSet
      [] tk.t = "range" ->
            LET in(x) == Ord(tk.c) <= Ord(x) /\ Ord(x) <= Ord(tk.d) IN
            IF ignorecase THEN in(c) \/ in(LowerChar(c)) \/ in(UpperChar(c)) ELSE in(c)
      [] OTHER -> FALSE

\* \b at position pos: exactly one of the characters around it is a word character.
AtWordBoundary(s, pos) ==
    LET before == pos > 1 /\ IsWordChar(Ch(s, pos - 1))
        after == pos <= Len(s) /\ IsWordChar(Ch(s, pos))
    IN before # after

RECURSIVE MatchHere(_, _, _, _, _)
\* Do the tokens from index k on match s starting at position pos?
MatchHere(toks, k, s, pos, ignorecase) ==
    IF k > Len(toks) THEN TRUE
    ELSE LET tk == toks[k] IN
         CASE tk.t = "wb"  -> AtWordBoundary(s, pos) /\ MatchHere(toks, k + 1, s, pos, ignorecase)
           [] tk.t = "bol" -> pos = 1 /\ MatchHere(toks, k + 1, s, pos, ignorecase)
           [] tk.t = "eol" -> pos = Len(s) + 1 /\ MatchHere(toks, k + 1, s, pos, ignorecase)
           [] OTHER ->
                LET here == pos <= Len(s) /\ AtomAccepts(tk, Ch(s, pos), ignorecase) IN
                CASE tk.q = "1" -> here /\ MatchHere(toks, k + 1, s, pos + 1, ignorecase)
                  [] tk.q = "*" -> \/ MatchHere(toks, k + 1, s, pos, ignorecase)
                                   \/ here /\ MatchHere(toks, k, s, pos + 1, ignorecase)
                  [] tk.q = "+" -> here /\ (\/ MatchHere(toks, k + 1, s, pos + 1, ignorecase)
                                            \/ MatchHere(toks, k, s, pos + 1, ignorecase))

ReSearchRec(toks, s, ignorecase) ==
    \E pos \in 1..(Len(s) + 1) : MatchHere(toks, 1, s, pos, ignorecase)

SearchTable ==
    [p \in PatternUniverse |-> [s \in TextUniverse |-> [ignorecase \in BOOLEAN |->
        ReSearchRec(CompileTable[p].toks, s, ignorecase)]]]

\* pattern.search(s) is not None, for a compiled pattern
RECURSIVE ReSearch(_, _, _)
ReSearch(compiled_pattern, s, ignorecase) ==
    IF compiled_pattern.pattern \in PatternUniverse /\ s \in TextUniverse
    THEN SearchTable[compiled_pattern.pattern][s][ignorecase]
    ELSE ReSearchRec(compiled_pattern.toks, s, ignorecase)

-----------------------------------------------------------------------------
(* categorization_engine.py: PatternMatcher and CategorizationEngine *)

\* re.compile over a list of pattern strings
CompileAll(patterns) == [k \in 1..Len(patterns) |-> ReCompile(patterns[k])]

\* Every re.compile of the list comprehension succeeds.
AllCompile(patterns) == \A k \in 1..Len(patterns) : ReCompile(patterns[k]).ok

\* A rule object no PatternMatcher has compiled: it has none of the
\* _compiled_patterns, _compiled_required, _compiled_exclusions attributes.
NotCompiled == [patterns |-> <<>>, required |-> <<>>, exclusions |-> <<>>, attrs |-> {}]

\* The three assignments of the loop body of _compile_patterns raise re.error.
CompileRuleRaises(rule) ==
    ~(/\ AllCompile(rule.patterns)
      /\ AllCompile(rule.required_patterns)
      /\ AllCompile(rule.exclusion_patterns))

\* What the loop body of PatternMatcher._compile_patterns leaves on one rule
\* object whose attributes were prev: each attribute is assigned in turn,
\* until a re.compile raises.
CompileRule(rule, prev) ==
    LET p_done == AllCompile(rule.patterns)
        r_done == p_done /\ AllCompile(rule.required_patterns)
        e_done == r_done /\ AllCompile(rule.exclusion_patterns)
        r_set == r_done /\ Len(rule.required_patterns) > 0
        e_set == e_done /\ Len(rule.exclusion_patterns) > 0
    IN [patterns |-> IF p_done THEN CompileAll(rule.patterns) ELSE prev.patterns,
        required |-> IF r_set THEN CompileAll(rule.required_patterns) ELSE prev.required,
        exclusions |-> IF e_set THEN CompileAll(rule.exclusion_patterns) ELSE prev.exclusions,
        attrs |-> prev.attrs
                    \cup (IF p_done THEN {"_compiled_patterns"} ELSE {})
                    \cup (IF r_set THEN {"_compiled_required"} ELSE {})
                    \cup (IF e_set THEN {"_compiled_exclusions"} ELSE {})]

\* PatternMatcher(rs) raises re.error out of _compile_patterns.
CompilePatternsRaises(rs) == \E i \in 1..Len(rs) : CompileRuleRaises(rs[i])

\* PatternMatcher._compile_patterns over the whole rule list, the attributes
\* of the rule objects being prev before: the loop stops at the first rule
\* with a pattern that does not compile and leaves the rules after it alone.
CompilePatterns(rs, prev) ==
    [i \in 1..Len(rs) |->
        IF \E j \in 1..(i - 1) : CompileRuleRaises(rs[j]) THEN prev[i]
        ELSE CompileRule(rs[i], prev[i])]

\* The rule objects of a list that was never handed to a PatternMatcher.
Uncompiled(rs) == [i \in 1..Len(rs) |-> NotCompiled]

\* `field in item and item[field]`
Present(it, field) == field \in DOMAIN it /\ it[field] # ""

\* The fixed list of PatternMatcher._matches_in_item
MatchFields == <<"name", "human_name", "description", "machine_name">>

\* PatternMatcher._matches_in_item
MatchesInItem(pattern, it) ==
    \E k \in 1..Len(MatchFields) :
        /\ Present(it, MatchFields[k])
        /\ ReSearch(pattern, Lower(it[MatchFields[k]]), TRUE)

RECURSIVE SumSeq(_)
SumSeq(s) == IF Len(s) = 0 THEN 0 ELSE Head(s) + SumSeq(Tail(s))

RECURSIVE SetToSeq(_)
\* The elements of a finite set, in some order.
SetToSeq(S) == IF S = {} THEN <<>>
               ELSE LET x == CHOOSE x \in S : TRUE IN <<x>> \o SetToSeq(S \ {x})

\* The inner loop of _score_rule leaving the fields after the first match:
\* a pattern counts once, however many weighted fields it matches.
PatternScore_FirstFieldOnly(rule, pattern, it) ==
    LET hits == {f \in DOMAIN rule.field_weights :
                    Present(it, f) /\ ReSearch(pattern, Lower(it[f]), TRUE)}
    IN IF hits = {} THEN 0
       ELSE rule.weight * rule.field_weights[CHOOSE f \in hits : TRUE]

\* The inner loop of _score_rule for one compiled pattern: the sum over the
\* rule's weighted fields.
PatternScore(rule, pattern, it) ==
    LET fs == SetToSeq(DOMAIN rule.field_weights) IN
    SumSeq([k \in 1..Len(fs) |->
              IF Present(it, fs[k]) /\ ReSearch(pattern, Lower(it[fs[k]]), TRUE)
              THEN rule.weight * rule.field_weights[fs[k]] ELSE 0])

\* _score_rule with the required-pattern gate run over the rule's weighted
\* fields instead of the fixed four-field list.
ScoreRule_GateOnWeightedFields(rule, comp, it) ==
    LET in_weighted(pattern) ==
            \E f \in DOMAIN rule.field_weights :
                Present(it, f) /\ ReSearch(pattern, Lower(it[f]), TRUE)
    IN
    IF /\ Len(rule.required_patterns) > 0
       /\ \E k \in 1..Len(comp.required) : ~in_weighted(comp.required[k])
    THEN 0
    ELSE IF /\ Len(rule.exclusion_patterns) > 0
            /\ \E k \in 1..Len(comp.exclusions) : MatchesInItem(comp.exclusions[k], it)
    THEN 0
    ELSE SumSeq([k \in 1..Len(comp.patterns) |-> PatternScore(rule, comp.patterns[k], it)])

\* _score_rule with the exclusion check placed inside the required-pattern
\* branch, so that it runs only for rules that have required patterns.
ScoreRule_ExclusionNeedsRequired(rule, comp, it) ==
    IF /\ Len(rule.required_patterns) > 0
       /\ \/ \E k \in 1..Len(comp.required) : ~MatchesInItem(comp.required[k], it)
          \/ /\ Len(rule.exclusion_patterns) > 0
             /\ \E k \in 1..Len(comp.exclusions) : MatchesInItem(comp.exclusions[k], it)
    THEN 0
    ELSE SumSeq([k \in 1..Len(comp.patterns) |-> PatternScore(rule, comp.patterns[k], it)])

\* PatternMatcher._score_rule
ScoreRule(rule, comp, it) ==
    IF /\ Len(rule.required_patterns) > 0
       /\ \E k \in 1..Len(comp.required) : ~MatchesInItem(comp.required[k], it)
    THEN 0
    ELSE IF /\ Len(rule.exclusion_patterns) > 0
            /\ \E k \in 1..Len(comp.exclusions) : MatchesInItem(comp.exclusions[k], it)
    THEN 0
    ELSE SumSeq([k \in 1..Len(comp.patterns) |-> PatternScore(rule, comp.patterns[k], it)])

\* _score_rule reads a _compiled_* attribute the rule object does not have
\* and raises AttributeError.
ScoreRuleRaises(rule, comp, it) ==
    IF Len(rule.required_patterns) > 0 /\ "_compiled_required" \notin comp.attrs THEN TRUE
    ELSE IF /\ Len(rule.required_patterns) > 0
            /\ \E k \in 1..Len(comp.required) : ~MatchesInItem(comp.required[k], it)
    THEN FALSE
    ELSE IF Len(rule.exclusion_patterns) > 0 /\ "_compiled_exclusions" \notin comp.attrs THEN TRUE
    ELSE IF /\ Len(rule.exclusion_patterns) > 0
            /\ \E k \in 1..Len(comp.exclusions) : MatchesInItem(comp.exclusions[k], it)
    THEN FALSE
    ELSE "_compiled_patterns" \notin comp.attrs

\* PatternMatcher.match raises AttributeError out of its loop.
MatchRaises(rs, comps, it) == \E i \in 1..Len(rs) : ScoreRuleRaises(rs[i], comps[i], it)

\* The rule_score values of the loop in PatternMatcher.match
RuleScores(rs, comps, it) == [i \in 1..Len(rs) |-> ScoreRule(rs[i], comps[i], it)]

\* PatternMatcher.match: per category, the sum of the scores of its rules.
PatternMatch(rs, rscores) ==
    [cat \in Categories |->
        SumSeq([i \in 1..Len(rs) |-> IF rs[i].category = cat THEN rscores[i] ELSE 0])]

\* dict.get(key, '') on an item
Get(it, field) == IF field \in DOMAIN it THEN it[field] ELSE ""

\* all(...) where the code has any(...)
AnyKeyword_All(name, keywords) == \A k \in 1..Len(keywords) : Contains(name, keywords[k])

\* any(keyword in name for keyword in keywords)
AnyKeyword(name, keywords) == \E k \in 1..Len(keywords) : Contains(name, keywords[k])

\* CategorizationEngine._determine_subcategory
DetermineSubcategory(category, it) ==
    LET name == Lower(IF Get(it, "name") # "" THEN Get(it, "name") ELSE Get(it, "human_name")) IN
    IF category = "ebook" THEN
        IF AnyKeyword(name, <<"programming", "coding", "development">>) THEN "programming"
        ELSE IF AnyKeyword(name, <<"security", "hacking", "pentesting">>) THEN "security"
        ELSE IF AnyKeyword(name, <<"cooking", "recipe", "kitchen">>) THEN "cooking"
        ELSE IF AnyKeyword(name, <<"gardening", "garden", "plant">>) THEN "gardening"
        ELSE IF AnyKeyword(name, <<"art", "design", "creative">>) THEN "arts"
        ELSE IF AnyKeyword(name, <<"survival", "outdoor", "wilderness">>) THEN "survival"
        ELSE "general"
    ELSE IF category = "game" THEN
        IF AnyKeyword(name, <<"strategy", "rts", "turn-based">>) THEN "strategy"
        ELSE IF AnyKeyword(name, <<"rpg", "role playing", "adventure">>) THEN "rpg"
        ELSE IF AnyKeyword(name, <<"simulation", "simulator", "sim">>) THEN "simulation"
        ELSE IF AnyKeyword(name, <<"puzzle", "brain", "logic">>) THEN "puzzle"
        ELSE IF AnyKeyword(name, <<"action", "shooter", "fps">>) THEN "action"
        ELSE "general"
    ELSE IF category = "subscription_content" THEN
        IF Contains(name, "coupon") THEN "coupon"
        ELSE IF Contains(name, "choice") THEN "humble_choice"
        ELSE "general"
    ELSE "general"

\* The engine-owned PatternMatcher as an entry of the matcher list; its rule
\* list is the engine's own list object (rules) and its compiled state lives
\* on the rule objects (compiled).
ThePatternMatcher ==
    [type |-> "PatternMatcher", owned |-> TRUE, rules |-> <<>>, scores |-> [cat \in Categories |-> 0]]

\* The rule list of the PatternMatcher the engine currently holds:
\* PatternMatcher.__init__ keeps the list it is given (self.rules = rules), and
\* the engine gives it self.rules, so it is the engine's own list object.
MatcherRules == rules

\* matcher.match(item) for one entry of the matcher list: the engine's
\* pattern matcher scores the engine's rules (pm), a PatternMatcher a caller
\* constructed scores its own rule list, a matcher of another class returns
\* its own score map.
MatcherMatch(m, pm, it) ==
    IF m.type = "PatternMatcher"
    THEN IF m.owned THEN pm
         ELSE PatternMatch(m.rules, RuleScores(m.rules, CompilePatterns(m.rules, Uncompiled(m.rules)), it))
    ELSE m.scores

RECURSIVE MaxKey_LastWins(_, _, _)
\* The scan with >= where max uses >: the last greatest key wins.
MaxKey_LastWins(scores, i, best) ==
    IF i > Len(CategoryType) THEN best
    ELSE MaxKey_LastWins(scores, i + 1,
                IF scores[CategoryType[i]] >= scores[best] THEN CategoryType[i] ELSE best)

RECURSIVE MaxKey(_, _, _)
\* max(all_scores, key=all_scores.get): scan the keys in dictionary order
\* (the declaration order of CategoryType), keep the first strictly greatest.
MaxKey(scores, i, best) ==
    IF i > Len(CategoryType) THEN best
    ELSE MaxKey(scores, i + 1,
                IF scores[CategoryType[i]] > scores[best] THEN CategoryType[i] ELSE best)

\* max where the code has min
Min2_Max(a, b) == IF a < b THEN b ELSE a

\* min(a, b)
Min2(a, b) == IF a < b THEN a ELSE b

RECURSIVE JoinPlus(_)
\* '+'.join(methods)
JoinPlus(names) ==
    IF Len(names) = 0 THEN ""
    ELSE IF Len(names) = 1 THEN names[1]
    ELSE names[1] \o "+" \o JoinPlus(Tail(names))

\* categorize, the matcher loop: the scores of every matcher of the list
\* summed by category; pm is what the engine's own PatternMatcher returns.
AllScores(pm, ms, it) ==
    [cat \in Categories |-> SumSeq([k \in 1..Len(ms) |-> MatcherMatch(ms[k], pm, it)[cat]])]

\* categorize, the CategoryResult it builds for the best category
BuildResult(all_scores, best_category, ms, it) ==
    [returned |-> TRUE,
     category |-> best_category,
     subcategory |-> DetermineSubcategory(best_category, it),
     confidence |-> Min2(all_scores[best_category], 100),
     method |-> JoinPlus([k \in 1..Len(ms) |-> ms[k].type]),
     matched_rules |-> <<>>,
     scores |-> all_scores,
     raised |-> ""]

\* categorize, from the summed scores on: max(all_scores.keys(), key=...)
\* and the result
BestResult(all_scores, ms, it) ==
    BuildResult(all_scores, MaxKey(all_scores, 2, CategoryType[1]), ms, it)

\* categorize keeping its score map between calls: the scores of a call are
\* added to those of the call before.
CategorizeResult_Accumulating(rs, rscores, ms, it) ==
    BestResult([cat \in Categories |->
                   result.scores[cat] + AllScores(PatternMatch(rs, rscores), ms, it)[cat]],
               ms, it)

\* CategorizationEngine.categorize: rscores are the rule scores of the
\* engine's own PatternMatcher over rs, ms is the matcher list.
CategorizeResult(rs, rscores, ms, it) ==
    BestResult(AllScores(PatternMatch(rs, rscores), ms, it), ms, it)

\* No categorize call has returned yet.
NoResult == [returned |-> FALSE, category |-> "", subcategory |-> "", confidence |-> 0,
             method |-> "", matched_rules |-> <<>>, scores |-> [cat \in Categories |-> 0],
             raised |-> ""]

\* categorize raised error out of a matcher's match and returned nothing.
RaisedResult(error) == [NoResult EXCEPT !.raised = error]

-----------------------------------------------------------------------------
(* duckdb_search_provider.py: the store query *)

\* DuckDBSearchProvider.__init__: the searchable-field list
SearchableFieldList == <<"human_name", "description", "category", "subcategory",
                         "developer", "publisher", "tags", "bundle_name">>

\* The columns of the tables behind the aliases p, a and d of the query.
TableColumns ==
    [p |-> {"product_id", "source_id", "human_name", "description", "category",
            "subcategory", "developer", "publisher", "tags", "rating"},
     a |-> {"source_id", "source_name"},
     d |-> {"product_id", "platform"}]

BundleIdsOf(pid) == {b \in 1..Len(Bundles) : <<b, pid>> \in BundleProducts}
DownloadIdsOf(pid) == {d \in 1..Len(Downloads) : Downloads[d].product_id = pid}

\* LEFT JOIN: the matching ids, or one NULL partner (0) when there is none.
LeftJoin(ids) == IF ids = {} THEN {0} ELSE ids

\* One tuple of products p JOIN asset_sources a LEFT JOIN bundle_products bp
\* LEFT JOIN bundles b LEFT JOIN downloads d.
Joined(pid, b, d) ==
    LET prod == ProductPool[pid] IN
    [product_id |-> pid, human_name |-> Some(prod.human_name),
     description |-> prod.description, category |-> prod.category,
     subcategory |-> prod.subcategory, developer |-> prod.developer,
     publisher |-> prod.publisher, tags |-> prod.tags, rating |-> prod.rating,
     source_name |-> Some(AssetSources[prod.source_id]),
     bundle_name |-> IF b = 0 THEN Null ELSE Some(Bundles[b]),
     platform |-> IF d = 0 THEN Null ELSE Downloads[d].platform,
     bundle_id |-> b, download_id |-> d]

\* The joined tuples of one product; none when its source is not in asset_sources.
JoinedOf(pid) ==
    IF ProductPool[pid].source_id \in DOMAIN AssetSources
    THEN {Joined(pid, b, d) : b \in LeftJoin(BundleIdsOf(pid)), d \in LeftJoin(DownloadIdsOf(pid))}
    ELSE {}

RECURSIVE StrLess(_, _)
\* a < b on strings, by code point
StrLess(a, b) ==
    IF Len(b) = 0 THEN FALSE
    ELSE IF Len(a) = 0 THEN TRUE
    ELSE IF Ch(a, 1) = Ch(b, 1) THEN StrLess(SubSeq(a, 2, Len(a)), SubSeq(b, 2, Len(b)))
    ELSE Ord(Ch(a, 1)) < Ord(Ch(b, 1))

\* The order of the tuples when the query has no ORDER BY p.human_name: that
\* of their product, bundle and download ids.
OrderedBefore_NoOrderBy(x, y) ==
    LET kx == <<x.product_id, x.bundle_id, x.download_id>>
        ky == <<y.product_id, y.bundle_id, y.download_id>>
    IN \/ kx[1] < ky[1]
       \/ kx[1] = ky[1] /\ kx[2] < ky[2]
       \/ kx[1] = ky[1] /\ kx[2] = ky[2] /\ kx[3] <= ky[3]

\* ORDER BY p.human_name: the store may return x before y.  The name is the
\* only sort key, so tuples of equal names may come in either order.
OrderedBefore(x, y) == ~StrLess(Val(y.human_name), Val(x.human_name))

RECURSIVE OrderBy(_)
\* One of the orders the store may return the tuples in.
OrderBy(S) ==
    IF S = {} THEN <<>>
    ELSE LET first == CHOOSE x \in S : \A y \in S : OrderedBefore(x, y)
         IN <<first>> \o OrderBy(S \ {first})

\* Every joined tuple of the product pool, ordered.
PoolTuples == OrderBy(UNION {JoinedOf(pid) : pid \in 1..Len(ProductPool)})

\* The ordered joined tuples of a store.
FromClause(st) ==
    LET in_store(t) == t.product_id \in st IN SelectSeq(PoolTuples, in_store)

\* The rows without the one at position i.
RemoveAt(rows, i) == SubSeq(rows, 1, i - 1) \o SubSeq(rows, i + 1, Len(rows))

RECURSIVE StoreOrders(_)
\* Every order the store may return ordered rows in: the queries sort on
\* p.human_name alone, so rows of equal human_name (one product joined to
\* several bundles or downloads) come in any order among themselves, and rows
\* of different names keep their order.
StoreOrders(rows) ==
    IF rows = <<>> THEN {<<>>}
    ELSE LET firsts == {i \in 1..Len(rows) :
                          \A j \in 1..(i - 1) : rows[j].human_name = rows[i].human_name}
         IN UNION {{<<rows[i]>> \o rest : rest \in StoreOrders(RemoveAt(rows, i))} : i \in firsts}

RECURSIVE LikeMatch(_, _, _, _)
\* SQL LIKE from position i of s and j of pattern p: % is any run, _ any character.
LikeMatch(s, i, p, j) ==
    IF j > Len(p) THEN i > Len(s)
    ELSE IF Ch(p, j) = "%"
         THEN LikeMatch(s, i, p, j + 1) \/ (i <= Len(s) /\ LikeMatch(s, i + 1, p, j))
    ELSE /\ i <= Len(s)
         /\ (Ch(p, j) = "_" \/ Ch(p, j) = Ch(s, i))
         /\ LikeMatch(s, i + 1, p, j + 1)

\* ILIKE taken as LIKE: the cases of the value and the pattern are kept
ILikeRec_CaseSensitive(s, p) == LikeMatch(s, 1, p, 1)

ILikeRec(s, p) == LikeMatch(LowerRec(s), 1, LowerRec(p), 1)

\* f'%{query}%'
LikeParam(query) == "%" \o query \o "%"

LikeParams == {LikeParam(q) : q \in SearchQueries}
ILikeTable == [s \in StoreTexts |-> [p \in LikeParams |-> ILikeRec(s, p)]]

\* s ILIKE p
RECURSIVE ILike(_, _)
ILike(s, p) == IF s \in StoreTexts /\ p \in LikeParams THEN ILikeTable[s][p] ELSE ILikeRec(s, p)

\* A condition of a WHERE clause with its bound parameter: tbl.col ILIKE text,
\* tbl.col = text, tbl.col >= num, tbl.col <= num, or a parenthesised OR of
\* conditions.
Cond(k, tbl, col, text, num, any) ==
    [k |-> k, tbl |-> tbl, col |-> col, text |-> text, num |-> num, any |-> any]

ILikeCond(field, query) == Cond("ilike", "p", field, LikeParam(query), 0, <<>>)

\* Is the condition TRUE on joined tuple t (a comparison with NULL is not).
LeafHolds(c, t) ==
    /\ ~IsNull(t[c.col])
    /\ CASE c.k = "ilike" -> ILike(Val(t[c.col]), c.text)
         [] c.k = "eq"    -> Val(t[c.col]) = c.text
         [] c.k = "ge"    -> Val(t[c.col]) >= c.num
         [] c.k = "le"    -> Val(t[c.col]) <= c.num

CondHolds(c, t) ==
    IF c.k = "any" THEN \E k \in 1..Len(c.any) : LeafHolds(c.any[k], t)
    ELSE LeafHolds(c, t)

\* Does the condition name a column its table has?
CondBinds(c) ==
    IF c.k = "any" THEN \A k \in 1..Len(c.any) : c.any[k].col \in TableColumns[c.any[k].tbl]
    ELSE c.col \in TableColumns[c.tbl]

\* The WHERE clause as the text the code builds: conditions joined by AND and
\* OR without parentheses.  SQL gives AND the higher precedence, so the clause
\* is TRUE when one of its OR-separated runs of AND-joined conditions is.
WhereHolds(sql, t) ==
    LET n == Len(sql.terms) IN
    \/ n = 0
    \/ \E lo \in 1..n : \E hi \in lo..n :
          /\ lo = 1 \/ sql.ops[lo - 1] = "OR"
          /\ hi = n \/ sql.ops[hi] = "OR"
          /\ \A j \in lo..(hi - 1) : sql.ops[j] = "AND"
          /\ \A j \in lo..hi : CondHolds(sql.terms[j], t)

\* The select list: the columns of a fetched row.
Row(t) ==
    [product_id |-> t.product_id, human_name |-> t.human_name, category |-> t.category,
     subcategory |-> t.subcategory, developer |-> t.developer, publisher |-> t.publisher,
     tags |-> t.tags, rating |-> t.rating, source_name |-> t.source_name,
     bundle_name |-> t.bundle_name, platform |-> t.platform]

\* conn.execute(sql, params).fetchall(): the rows, or the binder error DuckDB
\* raises for a column the table does not have.
Execute(sql, st) ==
    IF \E k \in 1..Len(sql.terms) : ~CondBinds(sql.terms[k])
    THEN [ok |-> FALSE, rows |-> <<>>]
    ELSE LET holds(t) == WhereHolds(sql, t)
             tuples == SelectSeq(FromClause(st), holds)
         IN [ok |-> TRUE, rows |-> [k \in 1..Len(tuples) |-> Row(tuples[k])]]

\* The SELECT ... FROM ... text without a WHERE clause.
BaseSql == [where |-> FALSE, terms |-> <<>>, ops |-> <<>>]

\* sql + " WHERE " + conditions joined by the operator
WithWhere(conds, operator) ==
    [where |-> TRUE, terms |-> conds, ops |-> [k \in 1..(Len(conds) - 1) |-> operator]]

\* filters.get(key) is truthy
FilterGiven(filters, key) ==
    /\ key \in DOMAIN filters
    /\ filters[key] # (IF key \in {"rating_min", "rating_max"} THEN 0 ELSE "")

\* filter_conditions of _add_filters_to_sql
FilterConditions(filters) ==
    (IF FilterGiven(filters, "category")
        THEN <<Cond("eq", "p", "category", filters["category"], 0, <<>>)>> ELSE <<>>)
    \o (IF FilterGiven(filters, "source")
        THEN <<Cond("eq", "a", "source_name", filters["source"], 0, <<>>)>> ELSE <<>>)
    \o (IF FilterGiven(filters, "platform")
        THEN <<Cond("eq", "d", "platform", filters["platform"], 0, <<>>)>> ELSE <<>>)
    \o (IF FilterGiven(filters, "rating_min")
        THEN <<Cond("ge", "p", "rating", "", filters["rating_min"], <<>>)>> ELSE <<>>)
    \o (IF FilterGiven(filters, "rating_max")
        THEN <<Cond("le", "p", "rating", "", filters["rating_max"], <<>>)>> ELSE <<>>)

\* DuckDBSearchProvider._add_filters_to_sql
AddFiltersToSql(sql, filters) ==
    LET conds == FilterConditions(filters)
        ands == [k \in 1..(Len(conds) - 1) |-> "AND"]
    IN IF DOMAIN filters = {} \/ Len(conds) = 0 THEN sql
       ELSE IF sql.where
            THEN [where |-> TRUE, terms |-> sql.terms \o conds,
                  ops |-> sql.ops \o <<"AND">> \o ands]
       ELSE [where |-> TRUE, terms |-> conds, ops |-> ands]

\* `if filters: sql, params = self._add_filters_to_sql(sql, params, filters)`
WithFilters(sql, filters) ==
    IF DOMAIN filters # {} THEN AddFiltersToSql(sql, filters) ELSE sql

-----------------------------------------------------------------------------
(* duckdb_search_provider.py: the search methods.  Each yields the outcome  *)
(* of the call: the rows returned or the error raised, and the number of    *)
(* conn.execute calls made.                                                 *)

Returned(rows, nq) == [kind |-> "rows", rows |-> rows, error |-> "", message |-> "", queries |-> nq]
Raised(error, message, nq) == [kind |-> "error", rows |-> <<>>, error |-> error, message |-> message, queries |-> nq]

\* The outcome of executing sql and formatting what it fetched.
Fetched(ex) ==
    IF ex.ok THEN Returned(ex.rows, 1) ELSE Raised("BinderException", "", 1)

\* SearchProvider.validate_regex
ValidateRegex(pattern) == ReCompile(pattern).ok

\* DuckDBSearchProvider._get_field_value
GetFieldValue(row, field) ==
    CASE field = "human_name"  -> row.human_name
      [] field = "description" -> Null
      [] field = "category"    -> row.category
      [] field = "subcategory" -> row.subcategory
      [] field = "developer"   -> row.developer
      [] field = "publisher"   -> row.publisher
      [] field = "tags"        -> row.tags
      [] field = "bundle_name" -> row.bundle_name
      [] OTHER -> Null

\* `field_value and pattern.search(str(field_value))`
ValueMatches(pattern, ignorecase, v) ==
    ~IsNull(v) /\ Val(v) # "" /\ ReSearch(pattern, Val(v), ignorecase)

\* DuckDBSearchProvider._row_matches_regex
RowMatchesRegex(pattern, ignorecase, row, fields) ==
    \E k \in 1..Len(fields) : ValueMatches(pattern, ignorecase, GetFieldValue(row, fields[k]))

\* DuckDBSearchProvider._search_with_text
SearchWithText(query, filters, st) ==
    LET sql == WithWhere(<<Cond("any", "p", "", "", 0,
                                <<ILikeCond("human_name", query),
                                  ILikeCond("description", query),
                                  ILikeCond("tags", query)>>)>>, "AND")
    IN Fetched(Execute(WithFilters(sql, filters), st))

\* DuckDBSearchProvider._search_with_regex
SearchWithRegex(query, filters, case_sensitive, st, fields) ==
    IF ~ValidateRegex(query)
    THEN Raised("ValueError", "Invalid regex pattern: " \o query, 0)
    ELSE LET ex == Execute(WithFilters(BaseSql, filters), st)
             pattern == ReCompile(query)
             keep(row) == RowMatchesRegex(pattern, ~case_sensitive, row, fields)
         IN IF ex.ok THEN Returned(SelectSeq(ex.rows, keep), 1) ELSE Fetched(ex)

\* DuckDBSearchProvider.search_assets
DoSearchAssets(query, filters, use_regex, case_sensitive, st, fields) ==
    IF use_regex THEN SearchWithRegex(query, filters, case_sensitive, st, fields)
    ELSE SearchWithText(query, filters, st)

\* DuckDBSearchProvider._search_field_with_text
SearchFieldWithText(field, query, filters, st) ==
    Fetched(Execute(WithFilters(WithWhere(<<ILikeCond(field, query)>>, "AND"), filters), st))

\* DuckDBSearchProvider._search_field_with_regex
SearchFieldWithRegex(field, query, case_sensitive, filters, st) ==
    IF ~ValidateRegex(query)
    THEN Raised("ValueError", "Invalid regex pattern: " \o query, 0)
    ELSE LET ex == Execute(WithFilters(BaseSql, filters), st)
             pattern == ReCompile(query)
             keep(row) == ValueMatches(pattern, ~case_sensitive, GetFieldValue(row, field))
         IN IF ex.ok THEN Returned(SelectSeq(ex.rows, keep), 1) ELSE Fetched(ex)

RECURSIVE PyListItems(_)
PyListItems(names) ==
    IF Len(names) = 0 THEN ""
    ELSE IF Len(names) = 1 THEN "'" \o names[1] \o "'"
    ELSE "'" \o names[1] \o "', " \o PyListItems(Tail(names))

\* str() of a list of strings
PyListRepr(names) == "[" \o PyListItems(names) \o "]"

\* `field in self.searchable_fields`
InList(field, fields) == \E k \in 1..Len(fields) : fields[k] = field

\* search_by_field without the membership test on the field name
DoSearchByField_Unchecked(field, query, use_regex, case_sensitive, filters, st, fields) ==
    IF use_regex THEN SearchFieldWithRegex(field, query, case_sensitive, filters, st)
    ELSE SearchFieldWithText(field, query, filters, st)

\* DuckDBSearchProvider.search_by_field
DoSearchByField(field, query, use_regex, case_sensitive, filters, st, fields) ==
    IF ~InList(field, fields)
    THEN Raised("ValueError",
                "Field '" \o field \o "' is not searchable. Available fields: "
                    \o PyListRepr(fields), 0)
    ELSE IF use_regex THEN SearchFieldWithRegex(field, query, case_sensitive, filters, st)
    ELSE SearchFieldWithText(field, query, filters, st)

\* The (field, query) items of queries whose field is searchable.
RECURSIVE SearchableItems(_, _)
SearchableItems(queries, fields) ==
    IF Len(queries) = 0 THEN <<>>
    ELSE (IF InList(Head(queries)[1], fields) THEN <<Head(queries)>> ELSE <<>>)
            \o SearchableItems(Tail(queries), fields)

\* DuckDBSearchProvider._advanced_search_with_text
AdvancedSearchWithText(queries, filters, operator, st, fields) ==
    LET items == SearchableItems(queries, fields)
        conditions == [k \in 1..Len(items) |-> ILikeCond(items[k][1], items[k][2])]
    IN IF Len(conditions) = 0 THEN Returned(<<>>, 0)
       ELSE Fetched(Execute(WithFilters(WithWhere(conditions, operator), filters), st))

\* _advanced_search_with_regex compiling the patterns only after the fetch
AdvancedSearchWithRegex_ValidateAfterFetch(queries, filters, case_sensitive, operator, st) ==
    LET ex == Execute(WithFilters(BaseSql, filters), st)
        matches(row, k) == ValueMatches(ReCompile(queries[k][2]), ~case_sensitive,
                                        GetFieldValue(row, queries[k][1]))
        keep(row) ==
           \/ operator = "AND" /\ \A k \in 1..Len(queries) : matches(row, k)
           \/ operator = "OR" /\ \E k \in 1..Len(queries) : matches(row, k)
    IN IF ~ex.ok THEN Fetched(ex)
       ELSE IF \E k \in 1..Len(queries) : ~ValidateRegex(queries[k][2])
            THEN Raised("re.error", "", 1)
       ELSE Returned(SelectSeq(ex.rows, keep), 1)

\* DuckDBSearchProvider._advanced_search_with_regex
AdvancedSearchWithRegex(queries, filters, case_sensitive, operator, st) ==
    IF \E k \in 1..Len(queries) : ~ValidateRegex(queries[k][2])
    THEN LET bad == CHOOSE k \in 1..Len(queries) :
                        /\ ~ValidateRegex(queries[k][2])
                        /\ \A j \in 1..(k - 1) : ValidateRegex(queries[j][2])
         IN Raised("ValueError", "Invalid regex pattern for field '" \o queries[bad][1]
                                    \o "': " \o queries[bad][2], 0)
    ELSE LET ex == Execute(WithFilters(BaseSql, filters), st)
             matches(row, k) == ValueMatches(ReCompile(queries[k][2]), ~case_sensitive,
                                             GetFieldValue(row, queries[k][1]))
             keep(row) ==
                \/ operator = "AND" /\ \A k \in 1..Len(queries) : matches(row, k)
                \/ operator = "OR" /\ \E k \in 1..Len(queries) : matches(row, k)
         IN IF ex.ok THEN Returned(SelectSeq(ex.rows, keep), 1) ELSE Fetched(ex)

\* search_advanced testing the operator only after the patterns were validated
DoSearchAdvanced_LateOperatorCheck(queries, filters, use_regex, case_sensitive, operator, st, fields) ==
    IF use_regex /\ \E k \in 1..Len(queries) : ~ValidateRegex(queries[k][2])
    THEN AdvancedSearchWithRegex(queries, filters, case_sensitive, operator, st)
    ELSE IF operator \notin {"AND", "OR"}
    THEN Raised("ValueError", "Operator must be 'AND' or 'OR'", 0)
    ELSE IF use_regex THEN AdvancedSearchWithRegex(queries, filters, case_sensitive, operator, st)
    ELSE AdvancedSearchWithText(queries, filters, operator, st, fields)

\* DuckDBSearchProvider.search_advanced
DoSearchAdvanced(queries, filters, use_regex, case_sensitive, operator, st, fields) ==
    IF operator \notin {"AND", "OR"}
    THEN Raised("ValueError", "Operator must be 'AND' or 'OR'", 0)
    ELSE IF use_regex THEN AdvancedSearchWithRegex(queries, filters, case_sensitive, operator, st)
    ELSE AdvancedSearchWithText(queries, filters, operator, st, fields)

-----------------------------------------------------------------------------
(* main.py: the advanced-search command *)

\* str.split(sep) for a one-character separator
RECURSIVE Split(_, _)
Split(s, sep) ==
    LET hits == {i \in 1..Len(s) : Ch(s, i) = sep}
    IN IF hits = {} THEN <<s>>
       ELSE LET i == CHOOSE h \in hits : \A j \in hits : h <= j
            IN <<SubSeq(s, 1, i - 1)>> \o Split(SubSeq(s, i + 1, Len(s)), sep)

\* str.strip()
RECURSIVE Strip(_)
Strip(s) ==
    IF Len(s) = 0 THEN s
    ELSE IF IsSpaceChar(Ch(s, 1)) THEN Strip(SubSeq(s, 2, Len(s)))
    ELSE IF IsSpaceChar(Ch(s, Len(s))) THEN Strip(SubSeq(s, 1, Len(s) - 1))
    ELSE s

\* query_dict[field] = query: a key already present keeps its place and
\* takes the new value, a new key goes last.
SetItem(query_dict, field, query) ==
    IF \E k \in 1..Len(query_dict) : query_dict[k][1] = field
    THEN [k \in 1..Len(query_dict) |->
            IF query_dict[k][1] = field THEN <<field, query>> ELSE query_dict[k]]
    ELSE Append(query_dict, <<field, query>>)

\* The loop of _parse_query_string over the comma-separated pairs.
RECURSIVE ParsePairs(_, _)
ParsePairs(pairs, query_dict) ==
    IF Len(pairs) = 0 THEN query_dict
    ELSE LET pair == Head(pairs)
             parts == Split(pair, ":")
             field == Strip(parts[1])
             query == Strip(SubSeq(pair, Len(parts[1]) + 2, Len(pair)))
         IN IF Len(parts) > 1 /\ Len(field) > 0 /\ Len(query) > 0
            THEN ParsePairs(Tail(pairs), SetItem(query_dict, field, query))
            ELSE ParsePairs(Tail(pairs), query_dict)

\* _parse_query_string(queries): the query mapping, as the sequence of its
\* items; ok is FALSE when it raises ValueError.
ParseQueryString(queries) ==
    LET query_dict == ParsePairs(Split(queries, ","), <<>>)
    IN [ok |-> Len(query_dict) > 0, query_dict |-> query_dict]

\* float(text) of a command-line rating, in tenths: digits with at most one
\* decimal.
Float(text) ==
    LET digit(c) == (CHOOSE i \in 1..Len(Digits) : Ch(Digits, i) = c) - 1
        RECURSIVE whole(_)
        whole(s) == IF Len(s) = 0 THEN 0
                    ELSE 10 * whole(SubSeq(s, 1, Len(s) - 1)) + digit(Ch(s, Len(s)))
        parts == Split(text, ".")
    IN 10 * whole(parts[1]) + (IF Len(parts) > 1 /\ Len(parts[2]) > 0 THEN digit(Ch(parts[2], 1)) ELSE 0)

\* _build_search_filters: an option that was not given is None (<<>>); the
\* rating options arrive as the text typed on the command line.
BuildSearchFilters(category, source, platform, rating_min, rating_max) ==
    LET given(option) == ~IsNull(option) /\ Len(Val(option)) > 0
        keys == {key \in {"category", "source", "platform", "rating_min", "rating_max"} :
                    CASE key = "category"   -> given(category)
                      [] key = "source"     -> given(source)
                      [] key = "platform"   -> given(platform)
                      [] key = "rating_min" -> given(rating_min)
                      [] key = "rating_max" -> given(rating_max)}
    IN IF keys = {} THEN NoFilters
       ELSE [key \in keys |-> CASE key = "category"   -> Val(category)
                                [] key = "source"     -> Val(source)
                                [] key = "platform"   -> Val(platform)
                                [] key = "rating_min" -> Float(Val(rating_min))
                                [] key = "rating_max" -> Float(Val(rating_max))]

\* The outcome of the command: the records it shows, or the error it prints.
Printed(error, message, nq) == [kind |-> "printed", rows |-> <<>>, error |-> error, message |-> message, queries |-> nq]

\* advanced_search, the except clauses around the search: an error
\* search_advanced raises is printed.
CommandOutcome(out) ==
    IF out.kind = "error" THEN Printed(out.error, out.message, out.queries) ELSE out

\* AssetInventoryDatabase(): _ensure_database connects and _create_tables
\* runs SHOW TABLES on the connection; the store holds its tables, so no
\* schema statement follows.  The conn.execute calls made.
EnsureDatabase == 1

\* The outcome of a search made on a connection that had n conn.execute
\* calls before it.
AfterQueries(n, out) == [out EXCEPT !.queries = n + out.queries]

\* advanced_search from the parsed query mapping and the built filters on:
\* a query string without a pair is rejected before the store is opened;
\* otherwise the store is opened and search_advanced runs on its connection.
CommandSearch(parsed, filters, operator, regex, case_sensitive, st, fields) ==
    IF ~parsed.ok
    THEN Printed("ValueError", "No valid field:query pairs found. Use format: field:query,field:query", 0)
    ELSE CommandOutcome(AfterQueries(EnsureDatabase,
                                     DoSearchAdvanced(parsed.query_dict, filters, regex, case_sensitive,
                                                      operator, st, fields)))

\* advanced_search(queries, operator, regex, case_sensitive, category,
\* source, platform, rating_min, rating_max, ...) with --dump
DoAdvancedSearchCommand(queries, operator, regex, case_sensitive, category, source, platform, rating_min, rating_max, st, fields) ==
    CommandSearch(ParseQueryString(queries),
                  BuildSearchFilters(category, source, platform, rating_min, rating_max),
                  operator, regex, case_sensitive, st, fields)

-----------------------------------------------------------------------------
(* duckdb_search_provider.py: get_search_stats *)

\* No get_search_stats result yet.
NoStats == <<>>

\* The conn.execute calls of get_search_stats.
StatsQueries == 4

\* The messages of the errors a failing conn.execute raises.
ErrorPool == {"Connection Error: Connection has already been closed"}

\* SELECT category, COUNT(*) FROM products GROUP BY category
CategoryCounts(st) ==
    [c \in {ProductPool[pid].category : pid \in st} |->
        Cardinality({pid \in st : ProductPool[pid].category = c})]

\* SELECT a.source_name, COUNT(p.product_id) FROM asset_sources a
\* LEFT JOIN products p ON a.source_id = p.source_id GROUP BY a.source_name
SourceCounts(st) ==
    [id \in DOMAIN AssetSources |->
        Cardinality({pid \in st : ProductPool[pid].source_id = id})]

\* ORDER BY count DESC: the orders of the groups the store may return, groups
\* of equal count in any order.
CountDescOrders(counts) ==
    LET n == Cardinality(DOMAIN counts) IN
    {o \in [1..n -> DOMAIN counts] :
        /\ \A i, j \in 1..n : i # j => o[i] # o[j]
        /\ \A i, j \in 1..n : i < j => counts[o[i]] >= counts[o[j]]}

\* get_search_stats letting the failure of a store query propagate
DoGetSearchStats_Propagates(st, fields, fails_at, err, cat_order, src_order) ==
    IF fails_at # 0
    THEN [kind |-> "error", stats |-> NoStats, queries |-> fails_at]
    ELSE [kind |-> "stats",
          stats |-> [total_products |-> Cardinality(st),
                     total_bundles |-> Len(Bundles),
                     category_distribution |->
                         [k \in 1..Len(cat_order) |->
                             [category |-> cat_order[k], count |-> CategoryCounts(st)[cat_order[k]]]],
                     source_distribution |->
                         [k \in 1..Len(src_order) |->
                             [source |-> AssetSources[src_order[k]],
                              count |-> SourceCounts(st)[src_order[k]]]],
                     searchable_fields |-> fields,
                     last_updated |-> "now"],
          queries |-> StatsQueries]

\* DuckDBSearchProvider.get_search_stats, whose fails_at-th conn.execute
\* raises err (none when fails_at is 0) and whose grouped queries return
\* their groups in the orders cat_order and src_order.  The clock reading
\* of last_updated is not modelled.
DoGetSearchStats(st, fields, fails_at, err, cat_order, src_order) ==
    IF fails_at # 0
    THEN [kind |-> "stats",
          stats |-> [error |-> err, searchable_fields |-> fields, last_updated |-> "now"],
          queries |-> fails_at]
    ELSE [kind |-> "stats",
          stats |-> [total_products |-> Cardinality(st),
                     total_bundles |-> Len(Bundles),
                     category_distribution |->
                         [k \in 1..Len(cat_order) |->
                             [category |-> cat_order[k], count |-> CategoryCounts(st)[cat_order[k]]]],
                     source_distribution |->
                         [k \in 1..Len(src_order) |->
                             [source |-> AssetSources[src_order[k]],
                              count |-> SourceCounts(st)[src_order[k]]]],
                     searchable_fields |-> fields,
                     last_updated |-> "now"],
          queries |-> StatsQueries]

\* list.copy()
ListCopy(list) == [k \in 1..Len(list) |-> list[k]]

\* list.remove(value): the first occurrence of value leaves the list
ListRemove(list, value) ==
    LET first == CHOOSE k \in 1..Len(list) :
                     list[k] = value /\ \A j \in 1..(k - 1) : list[j] # value
    IN SubSeq(list, 1, first - 1) \o SubSeq(list, first + 1, Len(list))

\* A caller's change of a list of field names it holds.
ListChange(list, change) ==
    IF change.op = "append" THEN Append(list, change.value)
    ELSE ListRemove(list, change.value)

\* The change can be made: remove needs the value in the list (it raises
\* ValueError otherwise), and a list grows by MaxListGrowth names at most.
ListChangeAllowed(list, change) ==
    IF change.op = "append"
    THEN Len(list) < Len(SearchableFieldList) + MaxListGrowth
    ELSE InList(change.value, list)

-----------------------------------------------------------------------------
(* The search provider as a state machine *)

Request(op, field, query, queries, filters, use_regex, case_sensitive, operator) ==
    [op |-> op, field |-> field, query |-> query, queries |-> queries, filters |-> filters,
     use_regex |-> use_regex, case_sensitive |-> case_sensitive, operator |-> operator]

NoRequest == Request("none", "", "", <<>>, NoFilters, FALSE, FALSE, "")
NoResponse == [kind |-> "none", rows |-> <<>>, error |-> "", message |-> ""]

\* The provider before any call.
SearchIdle ==
    /\ searchable_fields = SearchableFieldList
    /\ field_list = <<>>
    /\ request = NoRequest
    /\ response = NoResponse
    /\ store_queries = 0
    /\ calls = 0
    /\ stats = NoStats
    /\ fault = 0

\* The call returns or raises: its outcome becomes the response, the rows in
\* one of the orders the store may return them in.
Respond(req, out) ==
    /\ calls < MaxCalls
    /\ calls' = calls + 1
    /\ request' = req
    /\ \E rows \in StoreOrders(out.rows) :
          response' = [kind |-> out.kind, rows |-> rows, error |-> out.error,
                       message |-> out.message]
    /\ store_queries' = out.queries
    /\ UNCHANGED <<store, searchable_fields, field_list, stats, fault>>

-----------------------------------------------------------------------------
(* Operations of CategorizationEngine *)

\* CategorizationEngine.__init__, and the item a caller is about to categorize
Init ==
    /\ rules = DefaultRules
    /\ compiled = CompilePatterns(DefaultRules, Uncompiled(DefaultRules))
    /\ matchers = <<ThePatternMatcher>>
    /\ item \in Items
    /\ result = NoResult
    /\ rule_scores = <<>>
    /\ pc = "idle"
    /\ store = {}
    /\ SearchIdle

\* CategorizationEngine.categorize(item)
Categorize ==
    /\ IF /\ \E k \in 1..Len(matchers) : matchers[k].owned
          /\ MatchRaises(rules, compiled, item)
       THEN /\ result' = RaisedResult("AttributeError")
            /\ rule_scores' = <<>>
       ELSE \E rscores \in {RuleScores(rules, compiled, item)} :
            /\ result' = CategorizeResult(rules, rscores, matchers, item)
            /\ rule_scores' = rscores
    /\ UNCHANGED <<rules, compiled, matchers, item, pc>>
    /\ UNCHANGED search_vars

\* The loop of add_rule that replaces the first PatternMatcher of the list.
ReplacePatternMatcher(ms, new) ==
    IF \E i \in 1..Len(ms) : ms[i].type = "PatternMatcher"
    THEN LET first == CHOOSE i \in 1..Len(ms) :
                        /\ ms[i].type = "PatternMatcher"
                        /\ \A j \in 1..(i - 1) : ms[j].type # "PatternMatcher"
         IN [ms EXCEPT ![first] = new]
    ELSE ms

\* CategorizationEngine.add_rule(rule) run to its end with no other call in
\* between; rule is a rule object the caller has just constructed.  The
\* PatternMatcher constructor compiles the rules of self.rules, the list the
\* current matcher holds too; when it raises re.error the rule stays appended
\* and the matcher list is left as it was.
AddRule(rule) ==
    /\ pc = "idle"
    /\ Len(rules) < Len(DefaultRules) + MaxAddedRules
    /\ rules' = Append(rules, rule)
    /\ compiled' = CompilePatterns(Append(rules, rule), Append(compiled, NotCompiled))
    /\ matchers' = IF CompilePatternsRaises(Append(rules, rule)) THEN matchers
                   ELSE ReplacePatternMatcher(matchers, ThePatternMatcher)
    /\ UNCHANGED <<item, result, rule_scores, pc>>
    /\ UNCHANGED search_vars

\* add_rule, first statement: self.rules.append(rule)
AddRuleAppend(rule) ==
    /\ pc = "idle"
    /\ Len(rules) < Len(DefaultRules) + MaxAddedRules
    /\ rules' = Append(rules, rule)
    /\ compiled' = Append(compiled, NotCompiled)
    /\ pc' = "appended"
    /\ UNCHANGED <<matchers, item, result, rule_scores>>
    /\ UNCHANGED search_vars

\* add_rule, second statement: self.pattern_matcher = PatternMatcher(self.rules);
\* the call ends here when the constructor raises re.error.
AddRuleCompile ==
    /\ pc = "appended"
    /\ compiled' = CompilePatterns(rules, compiled)
    /\ pc' = IF CompilePatternsRaises(rules) THEN "idle" ELSE "constructed"
    /\ UNCHANGED <<rules, matchers, item, result, rule_scores>>
    /\ UNCHANGED search_vars

\* add_rule, the loop that puts the new PatternMatcher into self.matchers
AddRuleSwap ==
    /\ pc = "constructed"
    /\ matchers' = ReplacePatternMatcher(matchers, ThePatternMatcher)
    /\ pc' = "idle"
    /\ UNCHANGED <<rules, compiled, item, result, rule_scores>>
    /\ UNCHANGED search_vars

\* CategorizationEngine.add_matcher(matcher)
AddMatcher(m) ==
    /\ Len(matchers) < MaxMatchers
    /\ matchers' = Append(matchers, m)
    /\ UNCHANGED <<rules, compiled, item, result, rule_scores, pc>>
    /\ UNCHANGED search_vars

Next ==
    \/ Categorize
    \/ \E rule \in RulePool : AddRule(rule)
    \/ \E m \in MatcherPool : AddMatcher(m)

Spec == Init /\ [][Next]_vars

\* One thread calls categorize while another is inside add_rule: the
\* statements of add_rule interleave with categorize calls.
ConcurrentNext ==
    \/ Categorize
    \/ \E rule \in RulePool : AddRuleAppend(rule)
    \/ AddRuleCompile
    \/ AddRuleSwap

ConcurrentSpec == Init /\ [][ConcurrentNext]_vars

-----------------------------------------------------------------------------
(* Operations of DuckDBSearchProvider *)

\* No categorization engine has been constructed.
NoEngine ==
    /\ rules = <<>>
    /\ compiled = <<>>
    /\ matchers = <<>>
    /\ item = <<>>
    /\ result = NoResult
    /\ rule_scores = <<>>
    /\ pc = "idle"

\* DuckDBSearchProvider.__init__ over a connection to some store
SearchInit ==
    /\ store \in Stores
    /\ SearchIdle
    /\ NoEngine

\* DuckDBSearchProvider.search_assets(query, filters, use_regex, case_sensitive)
SearchAssets(query, filters, use_regex, case_sensitive) ==
    /\ Respond(Request("search_assets", "", query, <<>>, filters, use_regex, case_sensitive, ""),
               DoSearchAssets(query, filters, use_regex, case_sensitive, store, searchable_fields))
    /\ UNCHANGED cat_vars

\* DuckDBSearchProvider.search_by_field(field, query, use_regex, case_sensitive, filters)
SearchByField(field, query, use_regex, case_sensitive, filters) ==
    /\ Respond(Request("search_by_field", field, query, <<>>, filters, use_regex, case_sensitive, ""),
               DoSearchByField(field, query, use_regex, case_sensitive, filters, store, searchable_fields))
    /\ UNCHANGED cat_vars

\* DuckDBSearchProvider.search_advanced(queries, filters, use_regex, case_sensitive, operator)
SearchAdvanced(queries, filters, use_regex, case_sensitive, operator) ==
    /\ Respond(Request("search_advanced", "", "", queries, filters, use_regex, case_sensitive, operator),
               DoSearchAdvanced(queries, filters, use_regex, case_sensitive, operator, store, searchable_fields))
    /\ UNCHANGED cat_vars

\* The advanced-search command, run with --dump
AdvancedSearchCommand(queries, operator, regex, rating_max) ==
    /\ Respond(Request("advanced_search", "", queries, <<>>,
                       BuildSearchFilters(Null, Null, Null, Null, rating_max), regex, FALSE, operator),
               DoAdvancedSearchCommand(queries, operator, regex, FALSE, Null, Null, Null, Null, rating_max,
                                       store, searchable_fields))
    /\ UNCHANGED cat_vars

\* DuckDBSearchProvider.get_search_stats()
GetSearchStats(fails_at, err) ==
    /\ calls < MaxCalls
    /\ \E cat_order \in CountDescOrders(CategoryCounts(store)), src_order \in CountDescOrders(SourceCounts(store)) :
          LET out == DoGetSearchStats(store, searchable_fields, fails_at, err, cat_order, src_order)
          IN /\ response' = [kind |-> out.kind, rows |-> <<>>, error |-> "", message |-> ""]
             /\ stats' = out.stats
             /\ store_queries' = out.queries
    /\ calls' = calls + 1
    /\ request' = Request("get_search_stats", "", "", <<>>, NoFilters, FALSE, FALSE, "")
    /\ fault' = fails_at
    /\ UNCHANGED <<store, searchable_fields, field_list>>
    /\ UNCHANGED cat_vars

\* DuckDBSearchProvider.get_searchable_fields(): the caller gets a copy
GetSearchableFields ==
    /\ calls < MaxCalls
    /\ calls' = calls + 1
    /\ request' = Request("get_searchable_fields", "", "", <<>>, NoFilters, FALSE, FALSE, "")
    /\ response' = [kind |-> "fields", rows |-> <<>>, error |-> "", message |-> ""]
    /\ store_queries' = 0
    /\ field_list' = ListCopy(searchable_fields)
    /\ UNCHANGED <<store, searchable_fields, stats, fault>>
    /\ UNCHANGED cat_vars

\* The caller changes the list get_searchable_fields has just returned: the
\* list is a copy, the provider's own list is another object.
ChangeReturnedFieldList(change) ==
    /\ request.op = "get_searchable_fields"
    /\ ListChangeAllowed(field_list, change)
    /\ field_list' = ListChange(field_list, change)
    /\ UNCHANGED <<store, searchable_fields, request, response, store_queries, calls, stats, fault>>
    /\ UNCHANGED cat_vars

\* The caller changes the searchable_fields list inside the result
\* get_search_stats has just returned: the result holds
\* self.searchable_fields itself, so the list the provider reads changes.
ChangeStatsFieldList(change) ==
    /\ request.op = "get_search_stats"
    /\ ListChangeAllowed(stats.searchable_fields, change)
    /\ stats' = [stats EXCEPT !.searchable_fields = ListChange(stats.searchable_fields, change)]
    /\ searchable_fields' = ListChange(searchable_fields, change)
    /\ UNCHANGED <<store, field_list, request, response, store_queries, calls, fault>>
    /\ UNCHANGED cat_vars

SearchNext ==
    \/ \E queries \in CommandQueryPool, operator \in {"AND", "OR"}, regex \in BOOLEAN, rating_max \in RatingOptionPool :
          AdvancedSearchCommand(queries, operator, regex, rating_max)
    \/ \E query \in QueryPool, filters \in FilterPool, use_regex \in BOOLEAN, case_sensitive \in BOOLEAN :
          SearchAssets(query, filters, use_regex, case_sensitive)
    \/ \E field \in FieldPool, query \in FieldQueryPool, use_regex \in BOOLEAN, case_sensitive \in BOOLEAN, filters \in NarrowFilterPool :
          SearchByField(field, query, use_regex, case_sensitive, filters)
    \/ \E queries \in AdvancedPool, filters \in NarrowFilterPool, use_regex \in BOOLEAN, case_sensitive \in BOOLEAN, operator \in OperatorPool :
          SearchAdvanced(queries, filters, use_regex, case_sensitive, operator)
    \/ \E fails_at \in 0..StatsQueries, err \in ErrorPool :
          GetSearchStats(fails_at, err)
    \/ GetSearchableFields
    \/ \E change \in ListChangePool : ChangeReturnedFieldList(change)
    \/ \E change \in ListChangePool : ChangeStatsFieldList(change)

SearchSpec == SearchInit /\ [][SearchNext]_vars

-----------------------------------------------------------------------------
(* Properties of the categorization engine *)

\* The fields the required and exclusion gates are specified to read.
GateFields == {"name", "human_name", "description", "machine_name"}

\* Pattern string p matches (case-insensitively) field f of the item, f being
\* present and non-empty.
FieldMatches(p, f) ==
    /\ f \in DOMAIN item
    /\ item[f] # ""
    /\ ReSearch(ReCompile(p), Lower(item[f]), TRUE)

\* Some required pattern of the rule matches none of the gate fields.
RequiredUnmet(rule) ==
    \E k \in 1..Len(rule.required_patterns) :
        \A f \in GateFields : ~FieldMatches(rule.required_patterns[k], f)

\* Some exclusion pattern of the rule matches one of the gate fields.
ExclusionHit(rule) ==
    \E k \in 1..Len(rule.exclusion_patterns) :
        \E f \in GateFields : FieldMatches(rule.exclusion_patterns[k], f)

\* Every entry of patterns matches one of the rule's weighted fields.
AllPatternsMatch(rule) ==
    \A k \in 1..Len(rule.patterns) :
        \E f \in DOMAIN rule.field_weights : FieldMatches(rule.patterns[k], f)

\* The indices of the rules the last categorize call scored.
Scored == IF result.returned THEN 1..Len(rule_scores) ELSE {}

\* C1: a rule with required patterns of which one matches none of the item's
\* present, non-empty fields among name, human_name, description and
\* machine_name scores exactly 0, whatever its patterns match; the gate reads
\* those four fields and not the rule's weighted fields, so a required pattern
\* found in one of the four fields that carries no weight does satisfy it.
C1_RequiredGate ==
    \A i \in Scored :
        /\ (Len(rules[i].required_patterns) > 0 /\ RequiredUnmet(rules[i]))
              => rule_scores[i] = 0
        /\ (/\ Len(rules[i].required_patterns) > 0
            /\ ~RequiredUnmet(rules[i])
            /\ ~ExclusionHit(rules[i])
            /\ AllPatternsMatch(rules[i]))
              => rule_scores[i] > 0

\* A rule whose patterns all match a weighted field, whose required pattern
\* occurs in a weighted field outside the four gate fields only, scored 0.
C1_Witness ==
    \E i \in Scored :
        /\ Len(rules[i].required_patterns) > 0
        /\ RequiredUnmet(rules[i])
        /\ AllPatternsMatch(rules[i])
        /\ \A k \in 1..Len(rules[i].required_patterns) :
              \E f \in DOMAIN rules[i].field_weights :
                  FieldMatches(rules[i].required_patterns[k], f)
        /\ rule_scores[i] = 0

\* C2: a rule with exclusion patterns of which one matches any of the item's
\* present, non-empty fields among name, human_name, description and
\* machine_name scores exactly 0, with its required patterns satisfied or not
\* and however many of its patterns match.
C2_ExclusionDominance ==
    \A i \in Scored :
        (Len(rules[i].exclusion_patterns) > 0 /\ ExclusionHit(rules[i]))
            => rule_scores[i] = 0

\* A rule without required patterns, all of whose patterns match, was silenced
\* by an exclusion pattern.
C2_Witness ==
    \E i \in Scored :
        /\ Len(rules[i].required_patterns) = 0
        /\ ExclusionHit(rules[i])
        /\ AllPatternsMatch(rules[i])
        /\ rule_scores[i] = 0

\* C3: the confidence of a result is the aggregate score of the returned
\* category clamped at 1.0 (100 hundredths): exactly 1.0 above it, the score
\* itself otherwise.
C3_ConfidenceClamp ==
    result.returned =>
        LET s == result.scores[result.category] IN
        /\ s > 100 => result.confidence = 100
        /\ s <= 100 => result.confidence = s

\* A winning score above 1.0 was clamped while another category scored too.
C3_Witness ==
    /\ result.returned
    /\ result.scores[result.category] > 100
    /\ result.confidence = 100
    /\ \E c \in Categories : c # result.category /\ result.scores[c] > 0

\* Position of a category in the declaration order of CategoryType.
DeclIndex(c) == CHOOSE i \in 1..Len(CategoryType) : CategoryType[i] = c

\* The last result is the result of the engine as it is now configured.
ResultIsCurrent ==
    /\ result.returned
    /\ Len(rule_scores) = Len(rules)
    /\ result.method = JoinPlus([k \in 1..Len(matchers) |-> matchers[k].type])

\* C4: the returned category has the maximum aggregate score and, among the
\* categories that share the maximum, is the one declared first in
\* CategoryType; a repeated call with the same rule state returns the same
\* category.
C4_TieBreak ==
    /\ [](result.returned =>
            \A c \in Categories :
                /\ result.scores[c] <= result.scores[result.category]
                /\ DeclIndex(c) < DeclIndex(result.category)
                      => result.scores[c] < result.scores[result.category])
    /\ [][(ResultIsCurrent /\ rules' = rules /\ matchers' = matchers)
             => result'.category = result.category]_vars

\* Two categories tied at a positive maximum and the first declared was returned.
C4_Witness ==
    /\ result.returned
    /\ result.scores[result.category] > 0
    /\ \E c \in Categories :
          /\ c # result.category
          /\ result.scores[c] = result.scores[result.category]
          /\ DeclIndex(result.category) < DeclIndex(c)

\* C5: an item with none of name, human_name, description, machine_name
\* present and non-empty is categorized, by the engine's own pattern matcher,
\* with an all-zero score vector, confidence 0 and category unknown.
C5_SparseItemUnknown ==
    (/\ result.returned
     /\ result.method = "PatternMatcher"
     /\ \A f \in GateFields : ~(f \in DOMAIN item /\ item[f] # ""))
        => /\ \A c \in Categories : result.scores[c] = 0
           /\ result.confidence = 0
           /\ result.category = "unknown"

\* The subcategory keyword tables, subcategories in declaration order.
SubcategoryKeywords(category) ==
    CASE category = "ebook" ->
            << <<"programming", {"programming", "coding", "development"}>>,
               <<"security", {"security", "hacking", "pentesting"}>>,
               <<"cooking", {"cooking", "recipe", "kitchen"}>>,
               <<"gardening", {"gardening", "garden", "plant"}>>,
               <<"arts", {"art", "design", "creative"}>>,
               <<"survival", {"survival", "outdoor", "wilderness"}>> >>
      [] category = "game" ->
            << <<"strategy", {"strategy", "rts", "turn-based"}>>,
               <<"rpg", {"rpg", "role playing", "adventure"}>>,
               <<"simulation", {"simulation", "simulator", "sim"}>>,
               <<"puzzle", {"puzzle", "brain", "logic"}>>,
               <<"action", {"action", "shooter", "fps"}>> >>
      [] category = "subscription_content" ->
            << <<"coupon", {"coupon"}>>, <<"humble_choice", {"choice"}>> >>
      [] OTHER -> <<>>

\* The item's display name: name, or human_name when name is missing or empty.
DisplayName ==
    IF "name" \in DOMAIN item /\ item["name"] # "" THEN item["name"]
    ELSE IF "human_name" \in DOMAIN item THEN item["human_name"]
    ELSE ""

\* The subcategories of the table whose keyword list has a keyword in the
\* lower-cased display name.
SubcategoryHits(table) ==
    {i \in 1..Len(table) : \E kw \in table[i][2] : Contains(Lower(DisplayName), kw)}

\* C6: the subcategory is that of the first entry, in declaration order, of
\* the winning category's keyword table having a keyword that is a
\* case-insensitive substring of the display name, and general when no entry
\* has one or the category has no table.
C6_SubcategoryResolution ==
    result.returned =>
        LET table == SubcategoryKeywords(result.category)
            hits == SubcategoryHits(table)
        IN IF hits = {} THEN result.subcategory = "general"
           ELSE \E i \in hits :
                    /\ \A j \in hits : i <= j
                    /\ result.subcategory = table[i][1]

\* Two subcategories of the winning table had a keyword in the display name
\* and the first declared was returned.
C6_Witness ==
    /\ result.returned
    /\ LET table == SubcategoryKeywords(result.category)
           hits == SubcategoryHits(table)
       IN /\ Cardinality(hits) >= 2
          /\ \E i \in hits : (\A j \in hits : i <= j) /\ result.subcategory = table[i][1]

\* C7: matched_rules holds exactly the names of the rules that scored
\* non-zero for the item.
C7_MatchedRulesExact ==
    \A i \in Scored :
        (\E k \in 1..Len(result.matched_rules) : result.matched_rules[k] = rules[i].name)
            <=> rule_scores[i] # 0

-----------------------------------------------------------------------------
(* Properties of the search provider *)

\* A search call has returned records.
Returned_Records == request.op # "none" /\ response.kind = "rows"

\* The record satisfies the filter held under key: category equal, source
\* equal, platform equal, rating >= rating_min, rating <= rating_max.
SatisfiesFilter(row, filters, key) ==
    CASE key = "category"   -> row.category = Some(filters[key])
      [] key = "source"     -> row.source_name = Some(filters[key])
      [] key = "platform"   -> row.platform = Some(filters[key])
      [] key = "rating_min" -> ~IsNull(row.rating) /\ Val(row.rating) >= filters[key]
      [] key = "rating_max" -> ~IsNull(row.rating) /\ Val(row.rating) <= filters[key]

SatisfiesFilters(row, filters) ==
    \A key \in DOMAIN filters : SatisfiesFilter(row, filters, key)

\* C8: every record a search returns satisfies every supplied filter, for
\* search_assets, search_by_field and search_advanced, in text and in regex
\* mode, with operator AND and with operator OR.
C8_FiltersConjunctive ==
    Returned_Records =>
        \A k \in 1..Len(response.rows) : SatisfiesFilters(response.rows[k], request.filters)

\* The rows are the records of the reference, in an order the store may
\* return them in.
SameRecords(rows, reference) == rows \in StoreOrders(reference)

\* Every record of the store, as the query without a WHERE clause fetches them.
AllRecords == Execute(BaseSql, store).rows

\* The regex test the request applies to a record.
RegexMatches(req, row) ==
    CASE req.op = "search_assets" ->
            RowMatchesRegex(ReCompile(req.query), ~req.case_sensitive, row, searchable_fields)
      [] req.op = "search_by_field" ->
            ValueMatches(ReCompile(req.query), ~req.case_sensitive, GetFieldValue(row, req.field))
      [] req.op \in {"search_advanced", "advanced_search"} ->
            LET queries == IF req.op = "advanced_search"
                           THEN ParseQueryString(req.query).query_dict ELSE req.queries
                matches(k) == ValueMatches(ReCompile(queries[k][2]), ~req.case_sensitive,
                                           GetFieldValue(row, queries[k][1]))
            IN IF req.operator = "AND" THEN \A k \in 1..Len(queries) : matches(k)
               ELSE \E k \in 1..Len(queries) : matches(k)

\* The reference that regex-matches all records and then applies the filters.
RegexThenFilter(req) ==
    LET matched(row) == RegexMatches(req, row)
        kept(row) == SatisfiesFilters(row, req.filters)
    IN SelectSeq(SelectSeq(AllRecords, matched), kept)

\* The reference that applies the filters and then regex-matches.
FilterThenRegex(req) ==
    LET matched(row) == RegexMatches(req, row)
        kept(row) == SatisfiesFilters(row, req.filters)
    IN SelectSeq(SelectSeq(AllRecords, kept), matched)

\* C9: a regex-mode search returns exactly the records of the reference that
\* regex-matches all records and then applies the filters, and of the one
\* that filters first; with a category filter every returned record has that
\* category.
C9_FilterBeforeRegex ==
    (Returned_Records /\ request.use_regex) =>
        /\ SameRecords(response.rows, RegexThenFilter(request))
        /\ SameRecords(response.rows, FilterThenRegex(request))
        /\ "category" \in DOMAIN request.filters =>
              \A k \in 1..Len(response.rows) :
                  response.rows[k].category = Some(request.filters["category"])

\* The last call was search_by_field with a field outside the searchable-field list.
InvalidFieldCall ==
    request.op = "search_by_field" /\ ~InList(request.field, searchable_fields)

\* C10: search_by_field with a field that is not in the searchable-field list
\* fails with an error that names the field and lists the valid fields, in
\* text and in regex mode, and executes no store query.
C10_InvalidFieldRejected ==
    InvalidFieldCall =>
        /\ response.kind = "error"
        /\ response.error = "ValueError"
        /\ Contains(response.message, "'" \o request.field \o "'")
        /\ \A k \in 1..Len(searchable_fields) :
              Contains(response.message, "'" \o searchable_fields[k] \o "'")
        /\ store_queries = 0

\* search_by_field was called in regex mode with an unknown field, a pattern
\* that does not compile and a store that holds products, and was rejected
\* for the field.
C10_Witness ==
    /\ InvalidFieldCall
    /\ request.use_regex
    /\ ~ValidateRegex(request.query)
    /\ store # {}
    /\ response.kind = "error"
    /\ Contains(response.message, "is not searchable")

\* The last call was search_advanced with an accepted operator and a queries
\* mapping holding a field outside the searchable-field list.
UnknownFieldQuery ==
    /\ request.op = "search_advanced"
    /\ request.operator \in {"AND", "OR"}
    /\ \E k \in 1..Len(request.queries) : ~InList(request.queries[k][1], searchable_fields)

\* C11: search_advanced with a field outside the searchable-field list fails
\* with an error that names the field and lists the valid fields, in text and
\* in regex mode; the field is never ignored or treated as matching nothing.
C11_AdvancedUnknownFieldRejected ==
    UnknownFieldQuery =>
        /\ response.kind = "error"
        /\ \E k \in 1..Len(request.queries) :
              /\ ~InList(request.queries[k][1], searchable_fields)
              /\ Contains(response.message, "'" \o request.queries[k][1] \o "'")
        /\ \A k \in 1..Len(searchable_fields) :
              Contains(response.message, "'" \o searchable_fields[k] \o "'")

\* The patterns a request supplies.
SuppliedPatterns(req) ==
    IF req.op = "search_advanced" THEN {req.queries[k][2] : k \in 1..Len(req.queries)}
    ELSE {req.query}

\* The last call was a regex-mode search with a pattern that does not compile.
InvalidPatternCall ==
    /\ request.op \in {"search_assets", "search_by_field", "search_advanced"}
    /\ request.use_regex
    /\ \E pattern \in SuppliedPatterns(request) : ~ReCompile(pattern).ok

\* C12: a regex-mode search with a syntactically invalid pattern fails with an
\* error, executes no store query and returns no record, in search_assets,
\* search_by_field and search_advanced (also when its other patterns are
\* valid); when the field and the operator are accepted the error is the
\* invalid-pattern error.
C12_RegexValidatedFirst ==
    InvalidPatternCall =>
        /\ response.kind = "error"
        /\ response.rows = <<>>
        /\ store_queries = 0
        /\ (request.op = "search_by_field" => InList(request.field, searchable_fields))
              /\ (request.op = "search_advanced" => request.operator \in {"AND", "OR"})
           => Contains(response.message, "Invalid regex pattern")

\* search_advanced in regex mode, over a store holding products, was given an
\* invalid pattern next to a valid one and failed on the pattern.
C12_Witness ==
    /\ InvalidPatternCall
    /\ request.op = "search_advanced"
    /\ request.operator \in {"AND", "OR"}
    /\ \E pattern \in SuppliedPatterns(request) : ReCompile(pattern).ok
    /\ store # {}
    /\ response.kind = "error"
    /\ Contains(response.message, "Invalid regex pattern for field")

\* The last call was search_advanced with an operator other than AND and OR.
InvalidOperatorCall ==
    request.op = "search_advanced" /\ request.operator \notin {"AND", "OR"}

\* C13: search_advanced with an operator other than AND and OR fails with the
\* operator error, in text and in regex mode, before any pattern is validated
\* and without a store query.
C13_OperatorRejected ==
    InvalidOperatorCall =>
        /\ response.kind = "error"
        /\ response.error = "ValueError"
        /\ response.message = "Operator must be 'AND' or 'OR'"
        /\ response.rows = <<>>
        /\ store_queries = 0

\* search_advanced was called in regex mode with operator XOR and a pattern
\* that does not compile, over a store holding products: the operator was
\* rejected, not the pattern.
C13_Witness ==
    /\ InvalidOperatorCall
    /\ request.use_regex
    /\ \E pattern \in SuppliedPatterns(request) : ~ReCompile(pattern).ok
    /\ store # {}
    /\ response.kind = "error"
    /\ Contains(response.message, "Operator must be")

\* The query is a case-insensitive substring of the stored value.
SubstringOf(query, value) ==
    ~IsNull(value) /\ Contains(Lower(Val(value)), Lower(query))

\* The joined tuples of the store that satisfy the filters and the test, as
\* the records a search returns for them.
RecordsWhere(filters, Test(_)) ==
    LET keep(t) == SatisfiesFilters(Row(t), filters) /\ Test(t)
        tuples == SelectSeq(FromClause(store), keep)
    IN [k \in 1..Len(tuples) |-> Row(tuples[k])]

\* The returned records that satisfy the filters.
FilterSatisfying(rows, filters) ==
    LET kept(row) == SatisfiesFilters(row, filters) IN SelectSeq(rows, kept)

\* C14: in text mode search_assets returns a filter-satisfying record if and
\* only if the query is a case-insensitive substring of at least one
\* searchable field (human_name, description, category, subcategory,
\* developer, publisher, tags, bundle_name) of it.
C14_TextWholeItem ==
    (request.op = "search_assets" /\ ~request.use_regex /\ response.kind = "rows") =>
        LET anyField(t) == \E k \in 1..Len(searchable_fields) :
                               SubstringOf(request.query, t[searchable_fields[k]])
        IN SameRecords(FilterSatisfying(response.rows, request.filters),
                           RecordsWhere(request.filters, anyField))

\* The pattern of the request matches the stored value.
PatternMatches(query, case_sensitive, value) ==
    ~IsNull(value) /\ ReSearch(ReCompile(query), Val(value), ~case_sensitive)

\* C15: in regex mode search_assets returns a filter-satisfying record if and
\* only if the pattern matches the stored value of at least one searchable
\* field (human_name, description, category, subcategory, developer,
\* publisher, tags, bundle_name) of it, the description included.
C15_RegexWholeItem ==
    (request.op = "search_assets" /\ request.use_regex /\ response.kind = "rows") =>
        LET anyField(t) == \E k \in 1..Len(searchable_fields) :
                PatternMatches(request.query, request.case_sensitive, t[searchable_fields[k]])
        IN SameRecords(FilterSatisfying(response.rows, request.filters),
                           RecordsWhere(request.filters, anyField))

\* The last call was search_by_field with a searchable field and, in regex
\* mode, a pattern that compiles.
ValidFieldCall ==
    /\ request.op = "search_by_field"
    /\ InList(request.field, searchable_fields)
    /\ request.use_regex => ReCompile(request.query).ok

\* C16: search_by_field with a field of the searchable-field list succeeds
\* and returns a filter-satisfying record if and only if the stored value of
\* that field contains the query (text mode, case-insensitive) or is matched
\* by the pattern (regex mode).
C16_EveryFieldSearchable ==
    ValidFieldCall =>
        LET inField(t) ==
                IF request.use_regex
                THEN PatternMatches(request.query, request.case_sensitive, t[request.field])
                ELSE SubstringOf(request.query, t[request.field])
        IN /\ response.kind = "rows"
           /\ SameRecords(FilterSatisfying(response.rows, request.filters),
                              RecordsWhere(request.filters, inField))

\* The last call was search_advanced with an accepted operator, at least one
\* field query, searchable fields only and, in regex mode, patterns that
\* compile.
ValidAdvancedCall ==
    /\ request.op = "search_advanced"
    /\ request.operator \in {"AND", "OR"}
    /\ Len(request.queries) > 0
    /\ \A k \in 1..Len(request.queries) : InList(request.queries[k][1], searchable_fields)
    /\ request.use_regex => \A pattern \in SuppliedPatterns(request) : ReCompile(pattern).ok

\* C17: search_advanced returns a filter-satisfying record if and only if,
\* with AND, every field query matches its field and, with OR, at least one
\* does; a field query matches by case-insensitive substring in text mode and
\* by pattern match in regex mode.
C17_OperatorCombination ==
    ValidAdvancedCall =>
        LET matches(t, k) ==
                IF request.use_regex
                THEN PatternMatches(request.queries[k][2], request.case_sensitive,
                                    t[request.queries[k][1]])
                ELSE SubstringOf(request.queries[k][2], t[request.queries[k][1]])
            combined(t) ==
                IF request.operator = "AND"
                THEN \A k \in 1..Len(request.queries) : matches(t, k)
                ELSE \E k \in 1..Len(request.queries) : matches(t, k)
        IN /\ response.kind = "rows"
           /\ SameRecords(FilterSatisfying(response.rows, request.filters),
                              RecordsWhere(request.filters, combined))

\* C18: search_assets("") in text mode with no filters returns all stored
\* items: every stored product appears in the result and the number of
\* results equals the number of products.
C18_EmptyQueryAll ==
    (/\ request.op = "search_assets"
     /\ ~request.use_regex
     /\ request.query = ""
     /\ request.filters = NoFilters) =>
        /\ response.kind = "rows"
        /\ {response.rows[k].product_id : k \in 1..Len(response.rows)} = store
        /\ Len(response.rows) = Cardinality(store)

\* The last call was a text-mode search_assets that returned.
TextAssetsCall ==
    request.op = "search_assets" /\ ~request.use_regex /\ response.kind = "rows"

\* What search_assets returns on the current store for the filters of the
\* request and the given query and case_sensitive argument, in text mode.
TextAssetsRows(query, case_sensitive) ==
    DoSearchAssets(query, request.filters, FALSE, case_sensitive, store, searchable_fields).rows

\* C19: a text-mode search_assets returns the same records for the query, for
\* its upper-cased form and for its lower-cased form, under the same filters,
\* whatever the case_sensitive argument.
C19_TextCaseInsensitive ==
    TextAssetsCall =>
        \A case_sensitive \in BOOLEAN :
            /\ SameRecords(response.rows, TextAssetsRows(request.query, case_sensitive))
            /\ SameRecords(response.rows, TextAssetsRows(Upper(request.query), case_sensitive))
            /\ SameRecords(response.rows, TextAssetsRows(Lower(request.query), case_sensitive))

\* An upper-case query was searched with case_sensitive set and returned a
\* record whose matching text is not in upper case.
C19_Witness ==
    /\ TextAssetsCall
    /\ request.case_sensitive
    /\ request.query # Lower(request.query)
    /\ \E k \in 1..Len(response.rows) :
          LET row == response.rows[k] IN
          /\ ~Contains(Val(row.human_name), request.query)
          /\ IsNull(row.tags) \/ ~Contains(Val(row.tags), request.query)

\* The keys of a get_search_stats result that hold counts and distributions.
StatsCountKeys ==
    {"total_products", "total_bundles", "category_distribution", "source_distribution"}

\* C20: get_search_stats never raises: when every store query succeeds it
\* returns the total product count, the total bundle count, the category
\* distribution, the source distribution and the searchable-field list; when
\* a store query fails it returns a result with an error key and without the
\* count and distribution keys.
C20_StatsNeverRaises ==
    request.op = "get_search_stats" =>
        /\ response.kind = "stats"
        /\ "searchable_fields" \in DOMAIN stats
        /\ IF fault = 0
           THEN /\ StatsCountKeys \subseteq DOMAIN stats
                /\ "error" \notin DOMAIN stats
                /\ stats.total_products = Cardinality(store)
                /\ stats.total_bundles = Len(Bundles)
                /\ stats.searchable_fields = searchable_fields
                /\ \A k \in 1..Len(stats.category_distribution) :
                      stats.category_distribution[k].count =
                          Cardinality({pid \in store : ProductPool[pid].category
                                           = stats.category_distribution[k].category})
                /\ \A k \in 1..Len(stats.source_distribution) :
                      stats.source_distribution[k].count =
                          Cardinality({pid \in store : AssetSources[ProductPool[pid].source_id]
                                           = stats.source_distribution[k].source})
           ELSE /\ "error" \in DOMAIN stats
                /\ StatsCountKeys \cap DOMAIN stats = {}

\* get_search_stats was called on a store holding products, its third store
\* query failed after two had succeeded, and an error result came back.
C20_Witness ==
    /\ request.op = "get_search_stats"
    /\ store # {}
    /\ fault = 3
    /\ store_queries = 3
    /\ response.kind = "stats"
    /\ "error" \in DOMAIN stats

\* The records the store query of a regex-mode call fetches, before the
\* in-process regex pass.
FetchedRecords == Execute(WithFilters(BaseSql, request.filters), store).rows

\* C21: every search entry point, in text and in regex mode, returns its
\* records in ascending order of human_name, and the records a regex-mode
\* call returns are the fetched records that remain, in the fetched order.
C21_OrderedByName ==
    Returned_Records =>
        /\ \A k \in 1..(Len(response.rows) - 1) :
              ~StrLess(Val(response.rows[k + 1].human_name), Val(response.rows[k].human_name))
        /\ request.use_regex =>
              LET remains(row) == \E k \in 1..Len(response.rows) : response.rows[k] = row
              IN \E fetched \in StoreOrders(FetchedRecords) :
                    response.rows = SelectSeq(fetched, remains)

\* A regex-mode search returned records of different names after the regex
\* pass had removed one from between them.
C21_Witness ==
    /\ Returned_Records
    /\ request.use_regex
    /\ LET n == Len(FetchedRecords) IN
       \E i, j, k \in 1..n :
          /\ i < j /\ j < k
          /\ \E a \in 1..Len(response.rows) : response.rows[a] = FetchedRecords[i]
          /\ \A a \in 1..Len(response.rows) : response.rows[a] # FetchedRecords[j]
          /\ \E a \in 1..Len(response.rows) : response.rows[a] = FetchedRecords[k]
          /\ FetchedRecords[i].human_name # FetchedRecords[k].human_name

\* The field:query pairs written in a query string, in the order written.
PairsWritten(text) ==
    LET pairs == Split(text, ",")
        written(pair) == Contains(pair, ":")
        kept == SelectSeq(pairs, written)
    IN [k \in 1..Len(kept) |->
          LET colon == CHOOSE i \in 1..Len(kept[k]) :
                          Ch(kept[k], i) = ":" /\ \A j \in 1..(i - 1) : Ch(kept[k], j) # ":"
          IN <<Strip(SubSeq(kept[k], 1, colon - 1)), Strip(SubSeq(kept[k], colon + 1, Len(kept[k])))>>]

\* The last call was the advanced-search command with OR and a query string
\* of field:query pairs on searchable fields.
OrCommandCall ==
    /\ request.op = "advanced_search"
    /\ request.operator = "OR"
    /\ LET pairs == PairsWritten(request.query)
       IN /\ Len(pairs) > 0
          /\ \A k \in 1..Len(pairs) :
                /\ InList(pairs[k][1], searchable_fields)
                /\ Len(pairs[k][2]) > 0
                /\ request.use_regex => ReCompile(pairs[k][2]).ok

\* C22: the advanced-search command with OR shows the union of the records
\* matched by each field:query pair of its query string, pairs on the same
\* field included (category:game,category:ebook shows the games and the
\* ebooks).
C22_CommandOrUnion ==
    OrCommandCall =>
        LET pairs == PairsWritten(request.query)
            matches(t, k) ==
                IF request.use_regex
                THEN PatternMatches(pairs[k][2], request.case_sensitive, t[pairs[k][1]])
                ELSE SubstringOf(pairs[k][2], t[pairs[k][1]])
            anyPair(t) == \E k \in 1..Len(pairs) : matches(t, k)
        IN /\ response.kind = "rows"
           /\ SameRecords(FilterSatisfying(response.rows, request.filters),
                              RecordsWhere(request.filters, anyPair))

\* The (pattern, field) pairs of the rule that match: the field carries a
\* weight, is present and non-empty on the item, and the pattern matches it.
MatchingPairs(rule) ==
    {pf \in (1..Len(rule.patterns)) \X (DOMAIN rule.field_weights) :
        FieldMatches(rule.patterns[pf[1]], pf[2])}

RECURSIVE SumFieldWeights(_, _)
\* The sum of the field weights over a set of (pattern, field) pairs.
SumFieldWeights(rule, pairs) ==
    IF pairs = {} THEN 0
    ELSE LET pf == CHOOSE x \in pairs : TRUE
         IN rule.field_weights[pf[2]] + SumFieldWeights(rule, pairs \ {pf})

RECURSIVE SumScores(_, _)
\* The sum of the last rule scores over a set of rule indices.
SumScores(scores, indices) ==
    IF indices = {} THEN 0
    ELSE LET i == CHOOSE x \in indices : TRUE
         IN scores[i] + SumScores(scores, indices \ {i})

\* Neither gate of the rule fires on the item.
GatesPass(rule) ==
    /\ ~(Len(rule.required_patterns) > 0 /\ RequiredUnmet(rule))
    /\ ~(Len(rule.exclusion_patterns) > 0 /\ ExclusionHit(rule))

\* C23: a rule whose gates do not fire scores weight times the sum of
\* field_weight over every matching (pattern, field) pair, each pair counted;
\* the pattern matcher's score of a category is the sum of the scores of the
\* rules targeting it, and every category of the taxonomy has a score.
C23_ScoreFormula ==
    /\ \A i \in Scored :
          GatesPass(rules[i]) =>
              rule_scores[i] = rules[i].weight * SumFieldWeights(rules[i], MatchingPairs(rules[i]))
    /\ result.returned => DOMAIN result.scores = Categories
    /\ (result.returned /\ result.method = "PatternMatcher") =>
          \A c \in Categories :
              result.scores[c] = SumScores(rule_scores, {i \in Scored : rules[i].category = c})

\* A rule scored with one pattern matching two weighted fields and two
\* patterns matching the same field, next to another scoring rule of its
\* category.
C23_Witness ==
    /\ result.returned
    /\ result.method = "PatternMatcher"
    /\ \E i \in Scored :
          /\ GatesPass(rules[i])
          /\ \E p, q \in MatchingPairs(rules[i]) : p[1] = q[1] /\ p[2] # q[2]
          /\ \E p, q \in MatchingPairs(rules[i]) : p[1] # q[1] /\ p[2] = q[2]
          /\ rule_scores[i] > 0
          /\ \E j \in Scored : j # i /\ rules[j].category = rules[i].category /\ rule_scores[j] > 0

\* The score the rule is specified to have for the item: 0 when a gate
\* fires, else weight times the field weights of the matching pairs.
SpecifiedRuleScore(rule) ==
    IF GatesPass(rule)
    THEN rule.weight * SumFieldWeights(rule, MatchingPairs(rule))
    ELSE 0

\* The pattern score of a category over a rule list, every rule counted once.
SpecifiedPatternScore(rs, c) ==
    SumSeq([i \in 1..Len(rs) |-> IF rs[i].category = c THEN SpecifiedRuleScore(rs[i]) ELSE 0])

\* The score of a category by a matcher added with add_matcher.
AddedMatcherScore(m, c) ==
    IF m.type = "PatternMatcher" THEN SpecifiedPatternScore(m.rules, c) ELSE m.scores[c]

\* C24: after any sequence of add_rule and add_matcher calls, categorize
\* returns scores equal, per category, to the pattern score over the engine's
\* whole current rule list plus the score of each matcher added with
\* add_matcher; the matcher list holds exactly one engine-owned
\* PatternMatcher, first, and add_rule leaves every other matcher in place.
C24_ConfigurationReflected ==
    /\ [](/\ Len(matchers) >= 1
          /\ matchers[1].owned
          /\ \A k \in 2..Len(matchers) : ~matchers[k].owned)
    /\ [][rules' # rules =>
             /\ Len(matchers') = Len(matchers)
             /\ \A k \in 2..Len(matchers) : matchers'[k] = matchers[k]]_vars
    /\ [][(rules' = rules /\ matchers' = matchers) =>
             /\ result'.returned
             /\ \A c \in Categories :
                   result'.scores[c] =
                       SpecifiedPatternScore(rules, c)
                       + SumSeq([k \in 1..(Len(matchers) - 1) |-> AddedMatcherScore(matchers[k + 1], c)])]_vars

\* C25: a categorize call leaves the rule list, every rule's definition, the
\* matcher list and the item as they were, and a categorize call repeated
\* with the same item and no add_rule or add_matcher in between returns the
\* same category, subcategory, confidence, method and scores.
C25_CategorizeNoSideEffects ==
    /\ [][(result' # result \/ rule_scores' # rule_scores) =>
             /\ rules' = rules
             /\ compiled' = compiled
             /\ matchers' = matchers
             /\ item' = item]_vars
    /\ [][(ResultIsCurrent /\ rules' = rules /\ matchers' = matchers /\ item' = item) =>
             /\ result'.returned
             /\ result'.category = result.category
             /\ result'.subcategory = result.subcategory
             /\ result'.confidence = result.confidence
             /\ result'.method = result.method
             /\ result'.scores = result.scores]_vars

\* categorize returned non-zero scores on an engine that had a rule and a
\* matcher added; the call can be repeated in this state.
C25_Witness ==
    /\ ResultIsCurrent
    /\ Len(rules) > Len(DefaultRules)
    /\ Len(matchers) > 1
    /\ \E c \in Categories : result.scores[c] > 0
    /\ ENABLED Categorize

\* C26: add_rule swaps the matcher in atomically.  At every point of an
\* add_rule call every rule in the rule list of the engine's current matcher
\* has its compiled patterns; a categorize call interleaved with the call
\* returns a result and never fails on a rule that is listed but not
\* compiled; and until the swap the rule list of the matcher that was current
\* before the call stays as it was.
C26_AtomicSwap ==
    /\ [](\A i \in 1..Len(MatcherRules) : "_compiled_patterns" \in compiled[i].attrs)
    /\ [](result.raised = "")
    /\ [][pc' \in {"appended", "constructed"} => MatcherRules' = MatcherRules]_vars

\* The field names a caller may hand to search_by_field.
FieldNames ==
    {SearchableFieldList[k] : k \in 1..Len(SearchableFieldList)} \cup FieldPool

\* search_by_field, called now with the field, does not reject the field name.
AcceptsField(field) ==
    LET out == DoSearchByField(field, "", FALSE, FALSE, NoFilters, store, searchable_fields)
    IN ~(out.kind = "error" /\ out.error = "ValueError"
            /\ Contains(out.message, "is not searchable"))

\* C27: the searchable-field list is fixed: whatever calls were made, and
\* whatever a caller did to the list get_searchable_fields returned or to the
\* searchable_fields list inside a get_search_stats result, search_by_field
\* accepts exactly human_name, description, category, subcategory, developer,
\* publisher, tags and bundle_name.
C27_SearchableFieldsFixed ==
    {field \in FieldNames : AcceptsField(field)}
        = {"human_name", "description", "category", "subcategory",
           "developer", "publisher", "tags", "bundle_name"}

\* A caller changed the copy get_searchable_fields returned and the
\* provider's list is as it was constructed.
C27_CopyChanged ==
    /\ request.op = "get_searchable_fields"
    /\ field_list # SearchableFieldList
    /\ searchable_fields = SearchableFieldList

\* C28: search_advanced with an empty queries mapping and a valid operator
\* returns an empty list, in text mode and in regex mode alike, with AND and
\* with OR and whatever the filters: it never returns the filter-narrowed
\* candidates.
C28_EmptyQueriesEmpty ==
    (/\ request.op = "search_advanced"
     /\ Len(request.queries) = 0
     /\ request.operator \in {"AND", "OR"}) =>
        /\ response.kind = "rows"
        /\ response.rows = <<>>

\* The last call was a search that returned records under a filters mapping
\* holding the key with the value 0.
RatingBoundZero(key) ==
    /\ request.op \in {"search_assets", "search_by_field", "search_advanced", "advanced_search"}
    /\ response.kind \in {"rows", "printed"}
    /\ key \in DOMAIN request.filters
    /\ request.filters[key] = 0

\* C29: a rating bound of 0 is applied like any other bound: under
\* rating_max = 0 every returned record has rating <= 0, under
\* rating_min = 0 every returned record has rating >= 0.
C29_RatingZeroApplied ==
    /\ RatingBoundZero("rating_max") =>
          \A k \in 1..Len(response.rows) :
              ~IsNull(response.rows[k].rating) /\ Val(response.rows[k].rating) <= 0
    /\ RatingBoundZero("rating_min") =>
          \A k \in 1..Len(response.rows) :
              ~IsNull(response.rows[k].rating) /\ Val(response.rows[k].rating) >= 0

\* C30: no result list of search_assets, search_by_field or search_advanced
\* holds two records with the same product_id: a product linked to several
\* bundles or having several downloads appears once.
C30_OneRecordPerProduct ==
    (/\ request.op \in {"search_assets", "search_by_field", "search_advanced"}
     /\ response.kind = "rows") =>
        \A i, j \in 1..Len(response.rows) :
            i # j => response.rows[i].product_id # response.rows[j].product_id

====
